---------------------------- MODULE Spec2Model ----------------------------
(***************************************************************************)
(* A model of the table_forge application: the root controller (App.tsx),  *)
(* the data grid (components/DataEditor.tsx), the CSV/JSON services        *)
(* (services/csvService.ts) and the AI generation service                  *)
(* (services/geminiService.ts).                                            *)
(*                                                                         *)
(* JavaScript values are tagged records, so that truthiness, property      *)
(* reads of absent keys, String() and JSON serialisation are computed the  *)
(* way the runtime computes them.  A string is a sequence of one-character *)
(* strings; identifiers and enumeration literals, whose characters the     *)
(* program never inspects, are one-element sequences holding the token.    *)
(***************************************************************************)
EXTENDS Integers, Sequences, FiniteSets, TLC

VARIABLES
    project,            \* App.tsx useState<ProjectData>
    isGenerating,       \* App.tsx useState(false)
    generationPrompt,   \* App.tsx useState('')
    showAiModal,        \* App.tsx useState(false)
    showSettingsModal,  \* App.tsx useState(false)
    apiKey,             \* process.env.API_KEY
    requests,           \* pending generateGameContent promises, each with its closure
    readers,            \* FileReader reads of project files not yet completed
    notice,             \* the alert() raised by the last handler, "" if none
    savedJson,          \* the file written by the last Save Project
    savedProject,       \* the project value that file was written from
    csvOut,             \* the text handed to downloadCsv by the last Export CSV
    selectedGroupId,    \* DataEditor.tsx useState<string | null>(null)
    nextId,             \* number of identifiers crypto.randomUUID() has handed out
    draggedIndex,       \* SchemaEditor useState<number | null>(null)
    imageReads,         \* FileReader reads of image files not yet completed, each with its closure
    activeMenuRow       \* DataEditor.tsx useState<number | null>(null)

vars == <<project, isGenerating, generationPrompt, showAiModal, showSettingsModal,
          apiKey, requests, readers, notice, savedJson, savedProject, csvOut,
          selectedGroupId, nextId, draggedIndex, imageReads, activeMenuRow>>

---------------------------------------------------------------------------
(* JavaScript values *)

Undef == [t |-> "undef"]
Null == [t |-> "null"]
Bool(b) == [t |-> "bool", v |-> b]
Str(chars) == [t |-> "str", v |-> chars]
Num(n) == [t |-> "num", v |-> n]
Arr(seq) == [t |-> "arr", v |-> seq]
Obj(fn) == [t |-> "obj", v |-> fn]

NoKeys == [k \in {} |-> Undef]

\* ToBoolean: the test made by if (x), !x, x || y and x && y
Truthy(x) ==
    CASE x.t = "undef" -> FALSE
      [] x.t = "null" -> FALSE
      [] x.t = "bool" -> x.v
      [] x.t = "str" -> x.v # <<>>
      [] x.t = "num" -> x.v # 0
      [] OTHER -> TRUE

\* x || y
OrElse(x, y) == IF Truthy(x) THEN x ELSE y

\* x === null || x === undefined
IsNullish(x) == x.t \in {"undef", "null"}

\* o[k] on a value that is neither null nor undefined
Get(o, k) == IF o.t = "obj" /\ k \in DOMAIN o.v THEN o.v[k] ELSE Undef

\* { ...o, [k]: x }
With(o, k, x) ==
    Obj([j \in (IF o.t = "obj" THEN DOMAIN o.v ELSE {}) \cup {k} |->
             IF j = k THEN x ELSE o.v[j]])

\* { ...x }
Spread(x) == IF x.t = "obj" THEN x ELSE Obj(NoKeys)

\* the property key an identifier string denotes
KeyOf(id) == id.v[1]

---------------------------------------------------------------------------
(* Strings *)

RECURSIVE Flatten(_)
\* the concatenation of a sequence of strings
Flatten(ss) == IF ss = <<>> THEN <<>> ELSE Head(ss) \o Flatten(Tail(ss))

RECURSIVE Join(_, _)
\* Array.prototype.join
Join(ss, sep) ==
    IF ss = <<>> THEN <<>>
    ELSE IF Len(ss) = 1 THEN ss[1]
    ELSE ss[1] \o sep \o Join(Tail(ss), sep)

\* String.prototype.includes
Includes(s, p) == \E i \in 0..(Len(s) - Len(p)) : SubSeq(s, i + 1, i + Len(p)) = p

\* s.replace(/"/g, '""')
DoubleQuotes(s) ==
    Flatten([i \in 1..Len(s) |-> IF s[i] = "\"" THEN <<"\"", "\"">> ELSE <<s[i]>>])

\* String.prototype.startsWith
StartsWith(s, p) == Len(s) >= Len(p) /\ SubSeq(s, 1, Len(p)) = p

Digit(n) == <<"0", "1", "2", "3", "4", "5", "6", "7", "8", "9">>[n + 1]

RECURSIVE Digits(_)
Digits(n) == IF n < 10 THEN <<Digit(n)>> ELSE Digits(n \div 10) \o <<Digit(n % 10)>>

RECURSIVE StringOf(_)
\* String(x)
StringOf(x) ==
    CASE x.t = "undef" -> <<"u", "n", "d", "e", "f", "i", "n", "e", "d">>
      [] x.t = "null" -> <<"n", "u", "l", "l">>
      [] x.t = "bool" -> IF x.v THEN <<"t", "r", "u", "e">> ELSE <<"f", "a", "l", "s", "e">>
      [] x.t = "str" -> x.v
      [] x.t = "num" -> IF x.v < 0 THEN <<"-">> \o Digits(0 - x.v) ELSE Digits(x.v)
      [] x.t = "arr" -> Join([i \in 1..Len(x.v) |->
                                 IF IsNullish(x.v[i]) THEN <<>> ELSE StringOf(x.v[i])], <<",">>)
      [] OTHER -> <<"[", "o", "b", "j", "e", "c", "t", " ", "O", "b", "j", "e", "c", "t", "]">>

---------------------------------------------------------------------------
(* types.ts *)

FT_Text == Str(<<"text">>)
FT_Number == Str(<<"number">>)
FT_Boolean == Str(<<"boolean">>)
FT_Select == Str(<<"select">>)
FT_KeyValueSelect == Str(<<"key_value_select">>)
FT_ImageURL == Str(<<"image_url">>)
FT_ImageFile == Str(<<"image_file">>)
FT_LongText == Str(<<"longtext">>)


\* the longest option list of the mapped dropdown fields
MaxOptions == 2

\* a FieldDefinition with no options, keyValueOptions or defaultValue
Field(id, name, type) == Obj([id |-> Str(<<id>>), name |-> Str(name), type |-> type])

---------------------------------------------------------------------------
(* services/csvService.ts *)

\* CsvEscape as the earlier revision of the service had it: the comma is the
\* only separator it looks for
CsvEscape_CommaOnly(val, separator) ==
    IF Includes(val, <<",">>) \/ Includes(val, <<"\"">>) \/ Includes(val, <<"\n">>)
    THEN <<"\"">> \o DoubleQuotes(val) \o <<"\"">>
    ELSE val

\* the escaping of one header or cell (lines 53-56 and 72-75)
CsvEscape(val, separator) ==
    IF Includes(val, separator) \/ Includes(val, <<"\"">>) \/ Includes(val, <<"\n">>)
    THEN <<"\"">> \o DoubleQuotes(val) \o <<"\"">>
    ELSE val

\* a variant of the cell text below that takes the file name before the path
CsvCell_NameFirst(row, field, separator) ==
    LET raw == Get(row, KeyOf(Get(field, "id")))
        value == IF Get(field, "type") = FT_ImageFile /\ raw.t \in {"obj", "arr"}
                 THEN OrElse(OrElse(Get(raw, "fileName"), Get(raw, "filePath")), Str(<<>>))
                 ELSE raw
    IN  IF IsNullish(value) THEN <<>> ELSE CsvEscape(StringOf(value), separator)

\* the text of one cell (lines 60-76)
CsvCell(row, field, separator) ==
    LET raw == Get(row, KeyOf(Get(field, "id")))
        value == IF Get(field, "type") = FT_ImageFile /\ raw.t \in {"obj", "arr"}
                 THEN OrElse(OrElse(Get(raw, "filePath"), Get(raw, "fileName")), Str(<<>>))
                 ELSE raw
    IN  IF IsNullish(value) THEN <<>> ELSE CsvEscape(StringOf(value), separator)

exportToCsv(proj, separator) ==
    LET schema == proj.schema.v
        headers == Join([i \in 1..Len(schema) |->
                            CsvEscape(Get(schema[i], "name").v, separator)], separator)
        line(row) == Join([i \in 1..Len(schema) |-> CsvCell(row, schema[i], separator)],
                          separator)
        rows == Join([r \in 1..Len(proj.rows.v) |-> line(proj.rows.v[r])], <<"\n">>)
    IN  headers \o <<"\n">> \o rows

---------------------------------------------------------------------------
(* App.tsx: the state after construction *)

INITIAL_SCHEMA ==
    Arr(<<
        Field("1", <<"N", "a", "m", "e">>, FT_Text),
        Field("2", <<"C", "o", "s", "t">>, FT_Number),
        Field("3", <<"D", "e", "s", "c", "r", "i", "p", "t", "i", "o", "n">>, FT_LongText),
        With(Field("4", <<"R", "a", "r", "i", "t", "y">>, FT_Select), "options",
             Arr(<<Str(<<"C", "o", "m", "m", "o", "n">>),
                   Str(<<"U", "n", "c", "o", "m", "m", "o", "n">>),
                   Str(<<"R", "a", "r", "e">>)>>)),
        Field("5", <<"C", "a", "r", "d", " ", "A", "r", "t">>, FT_ImageURL),
        Field("6", <<"L", "o", "c", "a", "l", " ", "A", "s", "s", "e", "t">>, FT_ImageFile)
    >>)

DefaultName == Str(<<"M", "y", " ", "B", "o", "a", "r", "d", " ", "G", "a", "m", "e">>)

\* the value given to useState and to setProject in handleNewProject
DefaultProject ==
    [name |-> DefaultName,
     schema |-> INITIAL_SCHEMA,
     groups |-> Arr(<<>>),
     rows |-> Arr(<<>>),
     assetPrefix |-> Str(<<>>),
     csvSeparator |-> Str(<<",">>)]

NoFile == [kind |-> "none"]
NoCsv == [kind |-> "none"]

\* process.env.API_KEY is fixed for the session: set or not set
ApiKeys == {Undef, Str(<<"key">>)}

InitWith(p) ==
    /\ project = p
    /\ isGenerating = FALSE
    /\ generationPrompt = Str(<<>>)
    /\ showAiModal = FALSE
    /\ showSettingsModal = FALSE
    /\ apiKey \in ApiKeys
    /\ requests = <<>>
    /\ readers = <<>>
    /\ notice = ""
    /\ savedJson = NoFile
    /\ savedProject = p
    /\ csvOut = NoCsv
    /\ selectedGroupId = Null
    /\ nextId = 0
    /\ draggedIndex = Null
    /\ imageReads = <<>>
    /\ activeMenuRow = Null

Init == InitWith(DefaultProject)

---------------------------------------------------------------------------
(* App.tsx: settings modal and CSV export *)

OpenSettings ==
    /\ ~showSettingsModal
    /\ showSettingsModal' = TRUE
    /\ notice' = ""
    /\ UNCHANGED <<project, isGenerating, generationPrompt, showAiModal, apiKey, imageReads, activeMenuRow, draggedIndex, requests,
                   readers, savedJson, savedProject, csvOut, selectedGroupId, nextId>>

CloseSettings ==
    /\ showSettingsModal
    /\ showSettingsModal' = FALSE
    /\ notice' = ""
    /\ UNCHANGED <<project, isGenerating, generationPrompt, showAiModal, apiKey, imageReads, activeMenuRow, draggedIndex, requests,
                   readers, savedJson, savedProject, csvOut, selectedGroupId, nextId>>

\* the two radio inputs of the settings modal
Separators == {Str(<<",">>), Str(<<";">>)}

SetCsvSeparator(sep) ==
    /\ showSettingsModal
    /\ project' = [project EXCEPT !.csvSeparator = sep]
    /\ notice' = ""
    /\ UNCHANGED <<isGenerating, generationPrompt, showAiModal, showSettingsModal, apiKey, imageReads, activeMenuRow, draggedIndex,
                   requests, readers, savedJson, savedProject, csvOut, selectedGroupId,
                   nextId>>

\* downloadCsv: the content of the file is the text behind a byte-order mark
handleExportClick ==
    LET separator == OrElse(project.csvSeparator, Str(<<",">>))
        csv == exportToCsv(project, separator.v)
    IN  /\ csvOut' = [kind |-> "csv", text |-> csv, separator |-> separator.v,
                      file |-> <<"\\uFEFF">> \o csv]
        /\ notice' = ""
        /\ UNCHANGED <<project, isGenerating, generationPrompt, showAiModal,
                       showSettingsModal, apiKey, imageReads, activeMenuRow, draggedIndex, requests, readers, savedJson,
                       savedProject, selectedGroupId, nextId>>

---------------------------------------------------------------------------
(* JSON project files: csvService.ts downloadJson, App.tsx handleLoadProject *)

RECURSIVE ToJson(_)
\* the document JSON.stringify writes for a value: a key holding undefined is
\* left out of an object, undefined in an array is written as null
ToJson(x) ==
    CASE x.t = "obj" ->
             Obj([k \in {j \in DOMAIN x.v : x.v[j].t # "undef"} |-> ToJson(x.v[k])])
      [] x.t = "arr" ->
             Arr([i \in 1..Len(x.v) |-> IF x.v[i].t = "undef" THEN Null ELSE ToJson(x.v[i])])
      [] OTHER -> x

\* a file is the text of a JSON document, or text that is no JSON
JsonFile(doc) == [kind |-> "json", doc |-> doc]
NotJsonFile == [kind |-> "text"]

JSON_stringify(x) == JsonFile(ToJson(x))

\* JSON.parse: the value of the document, or a SyntaxError
JSON_parse(content) ==
    IF content.kind = "json" THEN [ok |-> TRUE, value |-> content.doc] ELSE [ok |-> FALSE]

AlertParse == "Error parsing JSON file."
AlertInvalid == "Invalid project file format."
AlertNoKey == "API Key is missing in environment variables."
AlertFailed == "Failed to generate content. See console."

\* a variant of the test below that also asks for a first element in both lists
IsProjectFile_NonEmpty(data) ==
    /\ Truthy(Get(data, "schema")) /\ Truthy(Get(data, "rows"))
    /\ Get(data, "schema").t = "arr" /\ Get(data, "schema").v # <<>>
    /\ Get(data, "rows").t = "arr" /\ Get(data, "rows").v # <<>>

\* if (data.schema && data.rows)
IsProjectFile(data) == Truthy(Get(data, "schema")) /\ Truthy(Get(data, "rows"))

\* a variant of the backfills below that always falls back to the comma
LoadedProject_ResetSeparator(data) ==
    [name |-> Get(data, "name"),
     schema |-> Get(data, "schema"),
     rows |-> Get(data, "rows"),
     groups |-> IF ~Truthy(Get(data, "groups")) THEN Arr(<<>>) ELSE Get(data, "groups"),
     assetPrefix |-> IF ~Truthy(Get(data, "assetPrefix")) THEN Str(<<>>)
                     ELSE Get(data, "assetPrefix"),
     csvSeparator |-> Str(<<",">>)]

\* a variant of the backfills below that keeps the groups of the project under
\* edit when the file has none
LoadedProject_KeepsGroups(data) ==
    [name |-> Get(data, "name"),
     schema |-> Get(data, "schema"),
     rows |-> Get(data, "rows"),
     groups |-> IF ~Truthy(Get(data, "groups")) THEN project.groups ELSE Get(data, "groups"),
     assetPrefix |-> IF ~Truthy(Get(data, "assetPrefix")) THEN Str(<<>>)
                     ELSE Get(data, "assetPrefix"),
     csvSeparator |-> IF ~Truthy(Get(data, "csvSeparator")) THEN Str(<<",">>)
                      ELSE Get(data, "csvSeparator")]

\* lines 132-135: the three backfills, then the object as the new state
LoadedProject(data) ==
    [name |-> Get(data, "name"),
     schema |-> Get(data, "schema"),
     rows |-> Get(data, "rows"),
     groups |-> IF ~Truthy(Get(data, "groups")) THEN Arr(<<>>) ELSE Get(data, "groups"),
     assetPrefix |-> IF ~Truthy(Get(data, "assetPrefix")) THEN Str(<<>>)
                     ELSE Get(data, "assetPrefix"),
     csvSeparator |-> IF ~Truthy(Get(data, "csvSeparator")) THEN Str(<<",">>)
                      ELSE Get(data, "csvSeparator")]

\* reader.onload: what the handler does with the text of the file.  Reading a
\* property of null throws a TypeError inside the try block.
LoadOutcome(content) ==
    LET parsed == JSON_parse(content) IN
    IF ~parsed.ok THEN [accepted |-> FALSE, alert |-> AlertParse]
    ELSE IF IsNullish(parsed.value) THEN [accepted |-> FALSE, alert |-> AlertParse]
    ELSE IF IsProjectFile(parsed.value)
         THEN [accepted |-> TRUE, alert |-> "", project |-> LoadedProject(parsed.value)]
         ELSE [accepted |-> FALSE, alert |-> AlertInvalid]

\* a variant of the effect below that leaves the selection alone
SelectionEffect_Keeps(groups, selected) == selected

\* DataEditor.tsx useEffect: a selection that names no group falls back to null
SelectionEffect(groups, selected) ==
    IF Truthy(selected) /\ ~\E i \in 1..Len(groups.v) : Get(groups.v[i], "id") = selected
    THEN Null
    ELSE selected

MaxReaders == 1

handleSaveProject ==
    /\ savedJson' = JSON_stringify(Obj(project))
    /\ savedProject' = project
    /\ notice' = ""
    /\ UNCHANGED <<project, isGenerating, generationPrompt, showAiModal, showSettingsModal,
                   apiKey, imageReads, activeMenuRow, draggedIndex, requests, readers, csvOut, selectedGroupId, nextId>>

\* the file input's onChange: a FileReader starts reading the chosen file
handleLoadProject(file) ==
    /\ Len(readers) < MaxReaders
    /\ readers' = Append(readers, file)
    /\ notice' = ""
    /\ UNCHANGED <<project, isGenerating, generationPrompt, showAiModal, showSettingsModal,
                   apiKey, imageReads, activeMenuRow, draggedIndex, requests, savedJson, savedProject, csvOut, selectedGroupId,
                   nextId>>

Without(seq, i) == [j \in 1..(Len(seq) - 1) |-> IF j < i THEN seq[j] ELSE seq[j + 1]]

readerOnLoad(i) ==
    /\ i \in 1..Len(readers)
    /\ LET out == LoadOutcome(readers[i]) IN
         /\ project' = IF out.accepted THEN out.project ELSE project
         /\ selectedGroupId' = IF out.accepted
                               THEN SelectionEffect(out.project.groups, selectedGroupId)
                               ELSE selectedGroupId
         /\ notice' = out.alert
    /\ readers' = Without(readers, i)
    /\ UNCHANGED <<isGenerating, generationPrompt, showAiModal, showSettingsModal, apiKey, imageReads, activeMenuRow, draggedIndex,
                   requests, savedJson, savedProject, csvOut, nextId>>

\* confirm("Start a new project? ...") answered OK
handleNewProject ==
    /\ project' = DefaultProject
    /\ generationPrompt' = Str(<<>>)
    /\ selectedGroupId' = SelectionEffect(DefaultProject.groups, selectedGroupId)
    /\ notice' = ""
    /\ UNCHANGED <<isGenerating, showAiModal, showSettingsModal, apiKey, imageReads, activeMenuRow, draggedIndex, requests, readers,
                   savedJson, savedProject, csvOut, nextId>>

\* confirm(...) answered Cancel
handleNewProjectDeclined ==
    /\ notice' = ""
    /\ UNCHANGED <<project, isGenerating, generationPrompt, showAiModal, showSettingsModal,
                   apiKey, imageReads, activeMenuRow, draggedIndex, requests, readers, savedJson, savedProject, csvOut,
                   selectedGroupId, nextId>>

ProjectNames == {DefaultName, Str(<<"D", "e", "c", "k">>)}

\* the title input's onChange
SetProjectName(name) ==
    /\ project' = [project EXCEPT !.name = name]
    /\ notice' = ""
    /\ UNCHANGED <<isGenerating, generationPrompt, showAiModal, showSettingsModal, apiKey, imageReads, activeMenuRow, draggedIndex,
                   requests, readers, savedJson, savedProject, csvOut, selectedGroupId,
                   nextId>>

---------------------------------------------------------------------------
(* App.tsx handleGlobalPrefixChange *)

\* groups.find(g => g.id === id), undefined when there is none
FindGroup(groups, id) ==
    IF \E i \in 1..Len(groups.v) : Get(groups.v[i], "id") = id
    THEN groups.v[CHOOSE i \in 1..Len(groups.v) :
                      /\ Get(groups.v[i], "id") = id
                      /\ \A j \in 1..(i - 1) : Get(groups.v[j], "id") # id]
    ELSE Undef

\* a + b on a string and a value
Concat(a, b) == Str(a.v \o StringOf(b))

RECURSIVE RewritePaths(_, _, _, _)
\* schema.forEach over the fields from the i-th on: an ImageFile cell holding an
\* object with a fileName gets filePath = prefix + fileName
RewritePaths(row, schema, i, prefix) ==
    IF i > Len(schema.v) THEN row
    ELSE
        LET field == schema.v[i]
            cellData == Get(row, KeyOf(Get(field, "id")))
        IN  IF /\ Get(field, "type") = FT_ImageFile
               /\ Truthy(cellData)
               /\ cellData.t \in {"obj", "arr"}
               /\ Truthy(Get(cellData, "fileName"))
            THEN RewritePaths(
                     With(row, KeyOf(Get(field, "id")),
                          With(cellData, "filePath", Concat(prefix, Get(cellData, "fileName")))),
                     schema, i + 1, prefix)
            ELSE RewritePaths(row, schema, i + 1, prefix)

\* a variant of the test below that takes an empty prefix for none
GroupOverrides_Truthy(groups, row) ==
    LET group == IF Truthy(Get(row, "__groupId"))
                 THEN FindGroup(groups, Get(row, "__groupId"))
                 ELSE Undef
    IN  Truthy(group) /\ Truthy(Get(group, "assetPrefix"))

\* a group's own prefix takes precedence when it is neither undefined nor null
GroupOverrides(groups, row) ==
    LET group == IF Truthy(Get(row, "__groupId"))
                 THEN FindGroup(groups, Get(row, "__groupId"))
                 ELSE Undef
    IN  Truthy(group) /\ ~IsNullish(Get(group, "assetPrefix"))

Prefixes == {Str(<<>>), Str(<<"p", "/">>)}

handleGlobalPrefixChange(newPrefix) ==
    /\ showSettingsModal
    /\ project' = [project EXCEPT
           !.assetPrefix = newPrefix,
           !.rows = Arr([r \in 1..Len(project.rows.v) |->
                            IF GroupOverrides(project.groups, project.rows.v[r])
                            THEN project.rows.v[r]
                            ELSE RewritePaths(project.rows.v[r], project.schema, 1, newPrefix)])]
    /\ notice' = ""
    /\ UNCHANGED <<isGenerating, generationPrompt, showAiModal, showSettingsModal, apiKey, imageReads, activeMenuRow, draggedIndex,
                   requests, readers, savedJson, savedProject, csvOut, selectedGroupId,
                   nextId>>

---------------------------------------------------------------------------
(* components/DataEditor.tsx *)

MaxRows == 2
MaxIds == 2

\* crypto.randomUUID(): the n-th identifier handed out
Uuid(n) == Str(<<<<"u1", "u2", "u3", "u4", "u5", "u6">>[n]>>)

\* every handler of the grid ends in onRowsChange and/or onGroupsChange, which
\* replace project.rows and project.groups; the selection effect runs on the
\* render that follows
GridStep(rows, groups, selected) ==
    /\ project' = [project EXCEPT !.rows = rows, !.groups = groups]
    /\ selectedGroupId' = SelectionEffect(groups, selected)
    /\ notice' = ""
    /\ UNCHANGED <<isGenerating, generationPrompt, showAiModal, showSettingsModal, apiKey, imageReads, draggedIndex,
                   requests, readers, savedJson, savedProject, csvOut>>

RECURSIVE SeedRow(_, _, _)
\* schema.forEach(f => newRow[f.id] = f.defaultValue || (Boolean ? false : ''))
SeedRow(row, schema, i) ==
    IF i > Len(schema.v) THEN row
    ELSE
        LET f == schema.v[i]
            seed == OrElse(Get(f, "defaultValue"),
                           IF Get(f, "type") = FT_Boolean THEN Bool(FALSE) ELSE Str(<<>>))
        IN  SeedRow(With(row, KeyOf(Get(f, "id")), seed), schema, i + 1)

\* the row addRow(groupId) builds
NewRow(groupId) ==
    LET targetGroupId == IF groupId = Null THEN Undef ELSE groupId
    IN  SeedRow(Obj([__groupId |-> targetGroupId]), project.schema, 1)

addRow(groupId) ==
    /\ Len(project.rows.v) < MaxRows
    /\ GridStep(Arr(Append(project.rows.v, NewRow(groupId))), project.groups, selectedGroupId)
    /\ UNCHANGED <<nextId, activeMenuRow>>

\* the floating button, or "Create First Row" while there is no row
AddRowToSelected == addRow(selectedGroupId)

\* "Add to <group>" under the rows of a group that is not collapsed
AddRowInline(g) ==
    /\ g \in 1..Len(project.groups.v)
    /\ ~Truthy(Get(project.groups.v[g], "collapsed"))
    /\ addRow(Get(project.groups.v[g], "id"))

deleteRow(index) ==
    /\ index \in 1..Len(project.rows.v)
    /\ GridStep(Arr(Without(project.rows.v, index)), project.groups, selectedGroupId)
    /\ UNCHANGED <<nextId, activeMenuRow>>

\* what the user types or picks in a cell: <<field id, value>>
CellEdits == {<<"1", Str(<<"x">>)>>}

updateCell(rowIndex, fieldId, value) ==
    /\ rowIndex \in 1..Len(project.rows.v)
    /\ GridStep(Arr([project.rows.v EXCEPT ![rowIndex] = With(@, fieldId, value)]),
                project.groups, selectedGroupId)
    /\ UNCHANGED <<nextId, activeMenuRow>>

\* "Group " followed by the decimal count
GroupName(n) == Str(<<"G", "r", "o", "u", "p", " ">> \o Digits(n))

addGroup ==
    /\ nextId < MaxIds
    /\ LET newId == Uuid(nextId + 1)
           newGroup == Obj([id |-> newId,
                            name |-> GroupName(Len(project.groups.v) + 1),
                            collapsed |-> Bool(FALSE)])
       IN  GridStep(project.rows, Arr(Append(project.groups.v, newGroup)), newId)
    /\ nextId' = nextId + 1
    /\ UNCHANGED activeMenuRow

\* groups.filter(g => g.id !== id)
GroupsWithout(groups, id) ==
    LET keep == {i \in 1..Len(groups.v) : Get(groups.v[i], "id") # id}
        nth(n) == CHOOSE i \in keep : Cardinality({j \in keep : j < i}) = n - 1
    IN  Arr([n \in 1..Cardinality(keep) |-> groups.v[nth(n)]])

\* a variant of the deletion below that takes the rows of the group with it
deleteGroup_DropsRows(g) ==
    /\ g \in 1..Len(project.groups.v)
    /\ LET id == Get(project.groups.v[g], "id") IN
       GridStep(Arr(SelectSeq(project.rows.v, LAMBDA r : Get(r, "__groupId") # id)),
                GroupsWithout(project.groups, id),
                selectedGroupId)
    /\ UNCHANGED <<nextId, activeMenuRow>>

\* confirm("Delete this group? ...") answered OK
deleteGroup(g) ==
    /\ g \in 1..Len(project.groups.v)
    /\ LET id == Get(project.groups.v[g], "id") IN
       GridStep(Arr([r \in 1..Len(project.rows.v) |->
                        IF Get(project.rows.v[r], "__groupId") = id
                        THEN With(project.rows.v[r], "__groupId", Undef)
                        ELSE project.rows.v[r]]),
                GroupsWithout(project.groups, id),
                selectedGroupId)
    /\ UNCHANGED <<nextId, activeMenuRow>>

\* confirm(...) answered Cancel
deleteGroupDeclined(g) ==
    /\ g \in 1..Len(project.groups.v)
    /\ notice' = ""
    /\ UNCHANGED <<project, isGenerating, generationPrompt, showAiModal, showSettingsModal,
                   apiKey, imageReads, activeMenuRow, draggedIndex, requests, readers, savedJson, savedProject, csvOut,
                   selectedGroupId, nextId>>

\* a click on a group header
SelectGroup(g) ==
    /\ g \in 1..Len(project.groups.v)
    /\ GridStep(project.rows, project.groups, Get(project.groups.v[g], "id"))
    /\ UNCHANGED <<nextId, activeMenuRow>>

\* a click on the Ungrouped header, shown while there is a group
SelectUngrouped ==
    /\ Len(project.groups.v) > 0
    /\ GridStep(project.rows, project.groups, Null)
    /\ UNCHANGED <<nextId, activeMenuRow>>

\* the select of a KeyValueSelect cell: the pick of the o-th option of field f
\* writes the option's value
SelectKeyValue(rowIndex, f, o) ==
    /\ f \in 1..Len(project.schema.v)
    /\ Get(project.schema.v[f], "type") = FT_KeyValueSelect
    /\ Get(project.schema.v[f], "keyValueOptions").t = "arr"
    /\ o \in 1..Len(Get(project.schema.v[f], "keyValueOptions").v)
    /\ updateCell(rowIndex, KeyOf(Get(project.schema.v[f], "id")),
                  Get(Get(project.schema.v[f], "keyValueOptions").v[o], "value"))

\* the bucket a row is listed in: the groups whose id it carries
ListedInGroup(row, g) ==
    /\ g \in 1..Len(project.groups.v)
    /\ Get(row, "__groupId") = Get(project.groups.v[g], "id")

\* the ungrouped bucket: !r.__groupId || !groups.find(g => g.id === r.__groupId)
ListedUngrouped(row) ==
    \/ ~Truthy(Get(row, "__groupId"))
    \/ ~\E g \in 1..Len(project.groups.v) :
           Get(project.groups.v[g], "id") = Get(row, "__groupId")

\* groupMap.get(id): of the groups that carry the id, the Map keeps the last
GroupMapGet(groups, id) ==
    IF \E i \in 1..Len(groups.v) : Get(groups.v[i], "id") = id
    THEN groups.v[CHOOSE i \in 1..Len(groups.v) :
                      /\ Get(groups.v[i], "id") = id
                      /\ \A j \in (i + 1)..Len(groups.v) : Get(groups.v[j], "id") # id]
    ELSE Undef

\* lines 233-238: the prefix of the row's group if it has one, else the global one
EffectivePrefix(row) ==
    LET group == IF Truthy(Get(row, "__groupId"))
                 THEN GroupMapGet(project.groups, Get(row, "__groupId"))
                 ELSE Undef
        assetPrefix == IF project.assetPrefix = Undef THEN Str(<<>>) ELSE project.assetPrefix
    IN  IF ~IsNullish(Get(group, "assetPrefix")) THEN Get(group, "assetPrefix") ELSE assetPrefix

\* the rows the grid shows: those of a collapsed group are not rendered
Rendered(row) ==
    \/ ListedUngrouped(row)
    \/ \E g \in 1..Len(project.groups.v) :
           ListedInGroup(row, g) /\ ~Truthy(Get(project.groups.v[g], "collapsed"))

MaxImageReads == 1

\* the files the user may pick: a name and the data URL readAsDataURL gives
ImageFiles == {[name |-> Str(<<"n">>), result |-> Str(<<"d">>)]}

\* the file input of an ImageFile cell: the read starts, and its onload keeps
\* the updateCell, the row index and the prefix of this render
selectImageFile(rowIndex, f, file) ==
    /\ rowIndex \in 1..Len(project.rows.v)
    /\ f \in 1..Len(project.schema.v)
    /\ Get(project.schema.v[f], "type") = FT_ImageFile
    /\ Rendered(project.rows.v[rowIndex])
    /\ Len(imageReads) < MaxImageReads
    /\ imageReads' = Append(imageReads,
                            [rows |-> project.rows, rowIndex |-> rowIndex,
                             fieldId |-> KeyOf(Get(project.schema.v[f], "id")),
                             file |-> file,
                             effectivePrefix |-> EffectivePrefix(project.rows.v[rowIndex])])
    /\ notice' = ""
    /\ UNCHANGED <<project, isGenerating, generationPrompt, showAiModal, showSettingsModal,
                   apiKey, draggedIndex, requests, readers, savedJson, savedProject, csvOut,
                   selectedGroupId, nextId, activeMenuRow>>

\* reader.onload of the i-th read: updateCell of the render the file was picked in
imageOnLoad(i) ==
    /\ i \in 1..Len(imageReads)
    /\ LET read == imageReads[i]
           value == Obj([fileName |-> read.file.name,
                         filePath |-> Concat(read.effectivePrefix, read.file.name),
                         fileData |-> read.file.result])
       IN  project' = [project EXCEPT
                           !.rows = Arr([read.rows.v EXCEPT
                                             ![read.rowIndex] = With(@, read.fieldId, value)])]
    /\ imageReads' = Without(imageReads, i)
    /\ notice' = ""
    /\ UNCHANGED <<isGenerating, generationPrompt, showAiModal, showSettingsModal, apiKey,
                   draggedIndex, requests, readers, savedJson, savedProject, csvOut,
                   selectedGroupId, nextId, activeMenuRow>>

\* the read fails: no handler is set for it
imageOnError(i) ==
    /\ i \in 1..Len(imageReads)
    /\ imageReads' = Without(imageReads, i)
    /\ notice' = ""
    /\ UNCHANGED <<project, isGenerating, generationPrompt, showAiModal, showSettingsModal,
                   apiKey, draggedIndex, requests, readers, savedJson, savedProject, csvOut,
                   selectedGroupId, nextId, activeMenuRow>>

MaxGridRows == 3

\* a variant of the duplicate below that puts the copy at the end of the list
duplicateRow_AtEnd(index) ==
    /\ index \in 1..Len(project.rows.v)
    /\ Len(project.rows.v) < MaxGridRows
    /\ GridStep(Arr(Append(project.rows.v, Spread(project.rows.v[index]))),
                project.groups, selectedGroupId)
    /\ UNCHANGED <<nextId, activeMenuRow>>

\* newRows.splice(index + 1, 0, { ...rowToCopy })
duplicateRow(index) ==
    /\ index \in 1..Len(project.rows.v)
    /\ Len(project.rows.v) < MaxGridRows
    /\ LET rows == project.rows.v
           rowToCopy == rows[index]
       IN  GridStep(Arr(SubSeq(rows, 1, index) \o <<Spread(rowToCopy)>>
                            \o SubSeq(rows, index + 1, Len(rows))),
                    project.groups, selectedGroupId)
    /\ UNCHANGED <<nextId, activeMenuRow>>

\* rows.map(...).filter(r => r.__groupId === currentGroupId).map(r => r.index)
GroupIndices(rows, currentGroupId) ==
    LET keep == {i \in 1..Len(rows) : Get(rows[i], "__groupId") = currentGroupId}
        nth(n) == CHOOSE i \in keep : Cardinality({j \in keep : j < i}) = n - 1
    IN  [n \in 1..Cardinality(keep) |-> nth(n)]

\* Array.prototype.indexOf, counting from 1, 0 when x is no element
IndexOf(seq, x) ==
    IF \E p \in 1..Len(seq) : seq[p] = x
    THEN CHOOSE p \in 1..Len(seq) : seq[p] = x /\ \A q \in 1..(p - 1) : seq[q] # x
    ELSE 0

\* a handler that returns before it sets any state
NoChange ==
    /\ notice' = ""
    /\ UNCHANGED <<project, isGenerating, generationPrompt, showAiModal, showSettingsModal,
                   apiKey, imageReads, activeMenuRow, draggedIndex, requests, readers, savedJson, savedProject, csvOut,
                   selectedGroupId, nextId>>

\* a variant of the move below that swaps with the neighbour in the row list
moveRowWithinGroup_Adjacent(originalIndex, direction, currentGroupId) ==
    /\ originalIndex \in 1..Len(project.rows.v)
    /\ LET rows == project.rows.v
           targetIndex == originalIndex + direction
       IN  IF targetIndex < 1 \/ targetIndex > Len(rows)
           THEN NoChange
           ELSE /\ GridStep(Arr([rows EXCEPT ![originalIndex] = rows[targetIndex],
                                             ![targetIndex] = rows[originalIndex]]),
                            project.groups, selectedGroupId)
                /\ UNCHANGED <<nextId, activeMenuRow>>

moveRowWithinGroup(originalIndex, direction, currentGroupId) ==
    /\ originalIndex \in 1..Len(project.rows.v)
    /\ LET rows == project.rows.v
           groupIndices == GroupIndices(rows, currentGroupId)
           currentGroupPos == IndexOf(groupIndices, originalIndex)
           targetGroupPos == currentGroupPos + direction
       IN  IF currentGroupPos = 0 \/ targetGroupPos < 1 \/ targetGroupPos > Len(groupIndices)
           THEN NoChange
           ELSE LET targetIndex == groupIndices[targetGroupPos] IN
                /\ GridStep(Arr([rows EXCEPT ![originalIndex] = rows[targetIndex],
                                             ![targetIndex] = rows[originalIndex]]),
                            project.groups, selectedGroupId)
                /\ UNCHANGED <<nextId, activeMenuRow>>

\* the arrows of a row listed under a group that is not collapsed
MoveRowInGroup(g, index, direction) ==
    /\ index \in 1..Len(project.rows.v)
    /\ ListedInGroup(project.rows.v[index], g)
    /\ ~Truthy(Get(project.groups.v[g], "collapsed"))
    /\ moveRowWithinGroup(index, direction, Get(project.groups.v[g], "id"))

\* the arrows of a row listed as ungrouped
MoveRowUngrouped(index, direction) ==
    /\ index \in 1..Len(project.rows.v)
    /\ ListedUngrouped(project.rows.v[index])
    /\ moveRowWithinGroup(index, direction, Undef)

\* a variant of the assignment below that leaves the menu open
assignRowToGroup_KeepsMenu(rowIndex, groupId) ==
    /\ rowIndex \in 1..Len(project.rows.v)
    /\ GridStep(Arr([project.rows.v EXCEPT ![rowIndex] = With(@, "__groupId", groupId)]),
                project.groups, selectedGroupId)
    /\ UNCHANGED <<nextId, activeMenuRow>>

assignRowToGroup(rowIndex, groupId) ==
    /\ rowIndex \in 1..Len(project.rows.v)
    /\ GridStep(Arr([project.rows.v EXCEPT ![rowIndex] = With(@, "__groupId", groupId)]),
                project.groups, selectedGroupId)
    /\ activeMenuRow' = Null
    /\ UNCHANGED nextId

\* the members of a set of indices in rising order: what filter keeps of a list
\* that is in rising order
Ascending(S) ==
    [n \in 1..Cardinality(S) |->
        CHOOSE i \in S : Cardinality({j \in S : j < i}) = n - 1]

\* the _originalIndex of the rows listed under each group and as ungrouped
groupedData ==
    LET rows == project.rows.v IN
    [groups |-> [g \in 1..Len(project.groups.v) |->
                    Ascending({r - 1 : r \in {q \in 1..Len(rows) : ListedInGroup(rows[q], g)}})],
     ungrouped |-> Ascending({r - 1 : r \in {q \in 1..Len(rows) : ListedUngrouped(rows[q])}})]

\* the ... button of a row that is shown
ToggleRowMenu(index) ==
    /\ index \in 1..Len(project.rows.v)
    /\ Rendered(project.rows.v[index])
    /\ activeMenuRow' = IF activeMenuRow = Num(index - 1) THEN Null ELSE Num(index - 1)
    /\ notice' = ""
    /\ UNCHANGED <<project, isGenerating, generationPrompt, showAiModal, showSettingsModal,
                   apiKey, imageReads, draggedIndex, requests, readers, savedJson,
                   savedProject, csvOut, selectedGroupId, nextId>>

\* a click on the layer behind an open menu
CloseRowMenu ==
    /\ activeMenuRow # Null
    /\ activeMenuRow' = Null
    /\ notice' = ""
    /\ UNCHANGED <<project, isGenerating, generationPrompt, showAiModal, showSettingsModal,
                   apiKey, imageReads, draggedIndex, requests, readers, savedJson,
                   savedProject, csvOut, selectedGroupId, nextId>>

\* the row's menu is open
MenuOpen(index) ==
    /\ index \in 1..Len(project.rows.v)
    /\ Rendered(project.rows.v[index])
    /\ activeMenuRow = Num(index - 1)

\* "Ungrouped" in the menu of a row
MoveToUngrouped(index) ==
    /\ MenuOpen(index)
    /\ assignRowToGroup(index, Undef)

\* a group in the menu of a row: any group for an ungrouped row, the groups of
\* another id for a row listed under a group
MoveToGroup(index, g) ==
    /\ MenuOpen(index)
    /\ g \in 1..Len(project.groups.v)
    /\ \/ ListedUngrouped(project.rows.v[index])
       \/ \E h \in 1..Len(project.groups.v) :
              /\ ListedInGroup(project.rows.v[index], h)
              /\ ~Truthy(Get(project.groups.v[h], "collapsed"))
              /\ Get(project.groups.v[g], "id") # Get(project.groups.v[h], "id")
    /\ assignRowToGroup(index, Get(project.groups.v[g], "id"))

\* { ...g, ...updates }
Merge(g, updates) ==
    Obj([k \in DOMAIN Spread(g).v \cup DOMAIN updates.v |->
            IF k \in DOMAIN updates.v THEN updates.v[k] ELSE g.v[k]])

\* a variant of the rewrite below that takes the rows of every group
UpdatedRows_AllRows(id, updates) ==
    LET newEffectivePrefix == IF ~IsNullish(Get(updates, "assetPrefix"))
                              THEN Get(updates, "assetPrefix")
                              ELSE project.assetPrefix
    IN  Arr([r \in 1..Len(project.rows.v) |->
                RewritePaths(project.rows.v[r], project.schema, 1, newEffectivePrefix)])

\* groups.map(g => g.id === id ? { ...g, ...updates } : g)
UpdatedGroups(id, updates) ==
    Arr([g \in 1..Len(project.groups.v) |->
            IF Get(project.groups.v[g], "id") = id
            THEN Merge(project.groups.v[g], updates)
            ELSE project.groups.v[g]])

\* the rows of the group with their ImageFile paths rebuilt from the new prefix
UpdatedRows(id, updates) ==
    LET newEffectivePrefix == IF ~IsNullish(Get(updates, "assetPrefix"))
                              THEN Get(updates, "assetPrefix")
                              ELSE project.assetPrefix
    IN  Arr([r \in 1..Len(project.rows.v) |->
                IF Get(project.rows.v[r], "__groupId") # id
                THEN project.rows.v[r]
                ELSE RewritePaths(project.rows.v[r], project.schema, 1,
                                  newEffectivePrefix)])

updateGroup(id, updates) ==
    /\ GridStep(IF "assetPrefix" \in DOMAIN updates.v
                THEN UpdatedRows(id, updates)
                ELSE project.rows,
                UpdatedGroups(id, updates), selectedGroupId)
    /\ UNCHANGED <<nextId, activeMenuRow>>

\* the folder button of a group header
ToggleCollapsed(g) ==
    /\ g \in 1..Len(project.groups.v)
    /\ updateGroup(Get(project.groups.v[g], "id"),
                   Obj([collapsed |-> Bool(~Truthy(Get(project.groups.v[g], "collapsed")))]))

GroupPrefixes == {Str(<<>>), Str(<<"q", "/">>)}

\* the Asset Path Prefix input of the group settings
SetGroupPrefix(g, prefix) ==
    /\ g \in 1..Len(project.groups.v)
    /\ updateGroup(Get(project.groups.v[g], "id"), Obj([assetPrefix |-> prefix]))

GroupNames == {Str(<<"N">>)}

\* the name input of a group header and of the group settings
RenameGroup(g, name) ==
    /\ g \in 1..Len(project.groups.v)
    /\ updateGroup(Get(project.groups.v[g], "id"), Obj([name |-> name]))

---------------------------------------------------------------------------
(* App.tsx: the AI modal and handleAiGenerate; services/geminiService.ts *)

OpenAiModal ==
    /\ ~showAiModal
    /\ showAiModal' = TRUE
    /\ notice' = ""
    /\ UNCHANGED <<project, isGenerating, generationPrompt, showSettingsModal, apiKey, imageReads, activeMenuRow, draggedIndex,
                   requests, readers, savedJson, savedProject, csvOut, selectedGroupId,
                   nextId>>

\* the modal's x and Cancel buttons
CloseAiModal ==
    /\ showAiModal
    /\ showAiModal' = FALSE
    /\ notice' = ""
    /\ UNCHANGED <<project, isGenerating, generationPrompt, showSettingsModal, apiKey, imageReads, activeMenuRow, draggedIndex,
                   requests, readers, savedJson, savedProject, csvOut, selectedGroupId,
                   nextId>>

Prompts == {Str(<<>>), Str(<<" ">>), Str(<<"i", "c", "e">>)}

\* the textarea's onChange
SetGenerationPrompt(text) ==
    /\ showAiModal
    /\ generationPrompt' = text
    /\ notice' = ""
    /\ UNCHANGED <<project, isGenerating, showAiModal, showSettingsModal, apiKey, imageReads, activeMenuRow, draggedIndex, requests,
                   readers, savedJson, savedProject, csvOut, selectedGroupId, nextId>>

WhiteSpace == {" ", "\n", "\t"}

RECURSIVE TrimStart(_)
TrimStart(s) == IF s # <<>> /\ Head(s) \in WhiteSpace THEN TrimStart(Tail(s)) ELSE s

RECURSIVE TrimEnd(_)
TrimEnd(s) ==
    IF s # <<>> /\ s[Len(s)] \in WhiteSpace THEN TrimEnd(SubSeq(s, 1, Len(s) - 1)) ELSE s

\* String.prototype.trim
Trim(s) == TrimEnd(TrimStart(s))

\* @google/genai's Type members are their own names
Type_NUMBER == Str(<<"N", "U", "M", "B", "E", "R">>)
Type_BOOLEAN == Str(<<"B", "O", "O", "L", "E", "A", "N">>)
Type_STRING == Str(<<"S", "T", "R", "I", "N", "G">>)
Type_OBJECT == Str(<<"O", "B", "J", "E", "C", "T">>)

\* FieldType.Image: the enumeration has no member of that name
FT_Image == Undef

\* `${x}` inside a template literal
Template(x) == StringOf(x)

\* field.options?.join(', ')
JoinedOptions(options) ==
    IF IsNullish(options) THEN Undef
    ELSE Str(Join([i \in 1..Len(options.v) |->
                      IF IsNullish(options.v[i]) THEN <<>> ELSE StringOf(options.v[i])],
                  <<",", " ">>))

\* field.keyValueOptions?.map(o => o.value)
OptionValues(keyValueOptions) ==
    IF IsNullish(keyValueOptions) THEN Undef
    ELSE Arr([i \in 1..Len(keyValueOptions.v) |-> Get(keyValueOptions.v[i], "value")])

\* field.keyValueOptions?.map(o => `${o.value} (${o.key})`).join(', ')
JoinedKeyValues(keyValueOptions) ==
    IF IsNullish(keyValueOptions) THEN Undef
    ELSE Str(Join([i \in 1..Len(keyValueOptions.v) |->
                      Template(Get(keyValueOptions.v[i], "value")) \o <<" ", "(">>
                      \o Template(Get(keyValueOptions.v[i], "key")) \o <<")">>],
                  <<",", " ">>))

mapFieldTypeToGeminiType(field) ==
    LET type == Get(field, "type")
        name == Get(field, "name")
    IN  CASE type = FT_Number -> Obj([type |-> Type_NUMBER, description |-> name])
          [] type = FT_Boolean -> Obj([type |-> Type_BOOLEAN, description |-> name])
          [] type = FT_Select ->
                 Obj([type |-> Type_STRING,
                      description |->
                          Str(Template(name)
                              \o <<" ", "(", "M", "u", "s", "t", " ", "b", "e", " ", "o", "n",
                                   "e", " ", "o", "f", ":", " ">>
                              \o Template(JoinedOptions(Get(field, "options"))) \o <<")">>),
                      enum |-> Get(field, "options")])
          [] type = FT_KeyValueSelect ->
                 Obj([type |-> Type_STRING,
                      description |->
                          Str(Template(name)
                              \o <<" ", "(", "S", "e", "l", "e", "c", "t", " ", "t", "h", "e",
                                   " ", "c", "o", "d", "e", "/", "v", "a", "l", "u", "e", " ",
                                   "t", "h", "a", "t", " ", "m", "a", "t", "c", "h", "e", "s",
                                   " ", "t", "h", "e", " ", "d", "e", "s", "c", "r", "i", "p",
                                   "t", "i", "o", "n", ":", " ">>
                              \o Template(JoinedKeyValues(Get(field, "keyValueOptions")))
                              \o <<")">>),
                      enum |-> OptionValues(Get(field, "keyValueOptions"))])
          [] type = FT_Image ->
                 Obj([type |-> Type_STRING,
                      description |->
                          Str(<<"A", " ", "c", "r", "e", "a", "t", "i", "v", "e", " ", "v", "i",
                                "s", "u", "a", "l", " ", "d", "e", "s", "c", "r", "i", "p", "t",
                                "i", "o", "n", " ", "o", "r", " ", "U", "R", "L", " ", "f", "o",
                                "r", " ">> \o Template(name))])
          [] OTHER -> Obj([type |-> Type_STRING, description |-> name])

\* lines 40-49: the last field of an id gives the id's property
ResponseSchema(schema) ==
    LET n == Len(schema.v)
        key(i) == KeyOf(Get(schema.v[i], "id"))
        last(k) == CHOOSE i \in 1..n : key(i) = k /\ \A j \in (i + 1)..n : key(j) # k
    IN  Obj([type |-> Type_OBJECT,
             properties |-> Obj([k \in {key(i) : i \in 1..n} |->
                                    mapFieldTypeToGeminiType(schema.v[last(k)])]),
             required |-> Arr([i \in 1..n |-> Get(schema.v[i], "id")])])

MaxRequests == 2

\* a variant of the attribute below that looks at the prompt only
GenerateDisabled_PromptOnly == ~Truthy(Str(Trim(generationPrompt.v)))

\* the Generate button's disabled attribute
GenerateDisabled == isGenerating \/ ~Truthy(Str(Trim(generationPrompt.v)))

\* generateGameContent up to its await: the request goes out unless the key is
\* missing.  The promise keeps the schema and prompt it was called with, and the
\* continuation in handleAiGenerate keeps the project of the render it was
\* created in.
CallService(key, schema, userPrompt, rows) ==
    IF ~Truthy(key) THEN requests
    ELSE Append(requests, [schema |-> schema, prompt |-> userPrompt, rows |-> rows,
                           responseSchema |-> ResponseSchema(schema)])

\* a variant of the click below without the early return on a missing key
handleAiGenerate_NoKeyCheck ==
    /\ showAiModal
    /\ ~GenerateDisabled
    /\ Len(requests) < MaxRequests
    /\ Len(project.rows.v) < MaxRows
    /\ isGenerating' = TRUE
    /\ requests' = CallService(apiKey, project.schema, generationPrompt, project.rows)
    /\ notice' = ""
    /\ UNCHANGED <<project, generationPrompt, showAiModal, showSettingsModal, apiKey, imageReads, activeMenuRow, draggedIndex,
                   readers, savedJson, savedProject, csvOut, selectedGroupId, nextId>>

\* a click on Generate
handleAiGenerate ==
    /\ showAiModal
    /\ ~GenerateDisabled
    /\ IF ~Truthy(apiKey)
       THEN /\ notice' = AlertNoKey
            /\ UNCHANGED <<isGenerating, requests>>
       ELSE /\ Len(requests) < MaxRequests
            /\ Len(project.rows.v) < MaxRows
            /\ isGenerating' = TRUE
            /\ requests' = CallService(apiKey, project.schema, generationPrompt, project.rows)
            /\ notice' = ""
    /\ UNCHANGED <<project, generationPrompt, showAiModal, showSettingsModal, apiKey, imageReads, activeMenuRow, draggedIndex,
                   readers, savedJson, savedProject, csvOut, selectedGroupId, nextId>>

\* encodeURIComponent on the characters that occur: letters, digits and
\* - _ . ! ~ * ' ( ) stay, every other character becomes its %XX form
EncodeChar(c) ==
    CASE c = " " -> <<"%", "2", "0">>
      [] c = "," -> <<"%", "2", "C">>
      [] c = ";" -> <<"%", "3", "B">>
      [] c = "/" -> <<"%", "2", "F">>
      [] c = ":" -> <<"%", "3", "A">>
      [] c = "\"" -> <<"%", "2", "2">>
      [] c = "\n" -> <<"%", "0", "A">>
      [] OTHER -> <<c>>

encodeURIComponent(s) == Flatten([i \in 1..Len(s) |-> EncodeChar(s[i])])

Http == <<"h", "t", "t", "p">>

\* `https://picsum.photos/seed/${encodeURIComponent(seed)}/200/200`
Picsum(seed) ==
    Str(Http \o <<"s", ":", "/", "/", "p", "i", "c", "s", "u", "m", ".", "p", "h", "o", "t",
                   "o", "s", "/", "s", "e", "e", "d", "/">>
             \o encodeURIComponent(StringOf(seed))
             \o <<"/", "2", "0", "0", "/", "2", "0", "0">>)

\* Math.random().toString(36).substring(7): some lower-case letters and digits,
\* none when the fraction is short in base 36
RandomTokens == {Str(<<>>), Str(<<"k", "7">>)}

Thrown == [thrown |-> TRUE]

PlaceholderFile ==
    Obj([fileName |-> Str(<<"p", "l", "a", "c", "e", "h", "o", "l", "d", "e", "r", ".", "p", "n", "g">>),
         filePath |-> Str(<<"p", "l", "a", "c", "e", "h", "o", "l", "d", "e", "r", ".", "p", "n", "g">>),
         fileData |-> Null])

\* a variant of the enrichment below that leaves the item as the model gave it
Enrich_AsGiven(generatedItem, enrichedItem, schema, i, random) == enrichedItem

RECURSIVE Enrich(_, _, _, _, _)
\* lines 159-175, the fields from the i-th on; Thrown when a step raises a TypeError
Enrich(generatedItem, enrichedItem, schema, i, random) ==
    IF i > Len(schema.v) THEN enrichedItem
    ELSE
        LET field == schema.v[i]
            key == KeyOf(Get(field, "id"))
            type == Get(field, "type")
            current == Get(enrichedItem, key)
        IN  IF type = FT_ImageURL
            THEN IF IsNullish(generatedItem) THEN Thrown
                 ELSE IF ~IsNullish(current) /\ current.t # "str" THEN Thrown
                 ELSE IF IsNullish(current) \/ ~StartsWith(current.v, Http)
                 THEN Enrich(generatedItem,
                             With(enrichedItem, key,
                                  Picsum(OrElse(Get(generatedItem, key), random))),
                             schema, i + 1, random)
                 ELSE Enrich(generatedItem, enrichedItem, schema, i + 1, random)
            ELSE IF type = FT_ImageFile
            THEN IF ~Truthy(current)
                 THEN Enrich(generatedItem, With(enrichedItem, key, PlaceholderFile),
                             schema, i + 1, random)
                 ELSE IF current.t = "str"
                 THEN Enrich(generatedItem,
                             With(enrichedItem, key,
                                  Obj([fileName |-> current, filePath |-> current,
                                       fileData |-> Null])),
                             schema, i + 1, random)
                 ELSE Enrich(generatedItem, enrichedItem, schema, i + 1, random)
            ELSE Enrich(generatedItem, enrichedItem, schema, i + 1, random)

\* the value the model returns for a field, by the field's type
AiValue(field) ==
    LET type == Get(field, "type") IN
    CASE type = FT_Number -> Num(3)
      [] type = FT_Boolean -> Bool(TRUE)
      [] type = FT_Select ->
             IF Get(field, "options").t = "arr" /\ Get(field, "options").v # <<>>
             THEN Get(field, "options").v[1] ELSE Str(<<>>)
      [] type = FT_KeyValueSelect ->
             LET options == Get(field, "keyValueOptions") IN
             IF options.t = "arr" /\ options.v # <<>>
             THEN Get(options.v[1], "value") ELSE Str(<<"a", "i">>)
      [] OTHER -> Str(<<"a", "i">>)

\* a text the model can return in place of a listed value: the label of the
\* first mapped option
AiLabel(field) ==
    LET options == Get(field, "keyValueOptions") IN
    IF Get(field, "type") = FT_KeyValueSelect /\ options.t = "arr" /\ options.v # <<>>
    THEN Get(options.v[1], "key")
    ELSE AiValue(field)

\* the model leaves every free text empty
AiBlank(field) ==
    IF Get(field, "type") \in {FT_Number, FT_Boolean, FT_Select, FT_KeyValueSelect}
    THEN AiValue(field)
    ELSE Str(<<>>)

\* what JSON.parse(response.text) can be: an object with a value for every
\* field, one with a label where the schema lists the values, one with every
\* free text empty, an object with no field, or null.  Nothing on the way from response.text to the row compares
\* the item with the response schema.
AiItems(schema) ==
    LET keys == {KeyOf(Get(schema.v[i], "id")) : i \in 1..Len(schema.v)}
        fieldOf(k) == CHOOSE f \in {schema.v[i] : i \in 1..Len(schema.v)} :
                          KeyOf(Get(f, "id")) = k
    IN  {Obj([k \in keys |-> AiValue(fieldOf(k))]),
         Obj([k \in keys |-> AiLabel(fieldOf(k))]),
         Obj([k \in keys |-> AiBlank(fieldOf(k))]),
         Obj(NoKeys),
         Null}

\* the promise of request i resolves with generatedItem
aiResolved(i, generatedItem, random) ==
    /\ i \in 1..Len(requests)
    /\ LET req == requests[i]
           enrichedItem == Enrich(generatedItem, Spread(generatedItem), req.schema, 1, random)
       IN  IF enrichedItem = Thrown
           THEN /\ notice' = AlertFailed
                /\ UNCHANGED <<project, generationPrompt, showAiModal>>
           ELSE /\ project' = [project EXCEPT !.rows = Arr(Append(req.rows.v, enrichedItem))]
                /\ generationPrompt' = Str(<<>>)
                /\ showAiModal' = FALSE
                /\ notice' = ""
    /\ isGenerating' = FALSE
    /\ requests' = Without(requests, i)
    /\ UNCHANGED <<showSettingsModal, apiKey, imageReads, activeMenuRow, draggedIndex, readers, savedJson, savedProject, csvOut,
                   selectedGroupId, nextId>>

\* a variant of the rejection below that also closes the modal and clears the prompt
aiRejected_ClosesModal(i) ==
    /\ i \in 1..Len(requests)
    /\ notice' = AlertFailed
    /\ isGenerating' = FALSE
    /\ requests' = Without(requests, i)
    /\ generationPrompt' = Str(<<>>)
    /\ showAiModal' = FALSE
    /\ UNCHANGED <<project, showSettingsModal, apiKey, imageReads, activeMenuRow, draggedIndex, readers, savedJson, savedProject,
                   csvOut, selectedGroupId, nextId>>

\* a variant of the rejection below that leaves the flag set
aiRejected_KeepsFlag(i) ==
    /\ i \in 1..Len(requests)
    /\ notice' = AlertFailed
    /\ requests' = Without(requests, i)
    /\ UNCHANGED <<project, isGenerating, generationPrompt, showAiModal, showSettingsModal,
                   apiKey, imageReads, activeMenuRow, draggedIndex, readers, savedJson,
                   savedProject, csvOut, selectedGroupId, nextId>>

\* the promise of request i rejects: the call failed, or the response text was
\* no JSON
aiRejected(i) ==
    /\ i \in 1..Len(requests)
    /\ notice' = AlertFailed
    /\ isGenerating' = FALSE
    /\ requests' = Without(requests, i)
    /\ UNCHANGED <<project, generationPrompt, showAiModal, showSettingsModal, apiKey, imageReads, activeMenuRow, draggedIndex, readers,
                   savedJson, savedProject, csvOut, selectedGroupId, nextId>>

---------------------------------------------------------------------------
(* SchemaEditor *)

MaxFields == 3

\* the editor and the grid render a list of field objects; the render of
\* anything else throws and React unmounts the application
Mounted ==
    /\ project.schema.t = "arr"
    /\ \A i \in 1..Len(project.schema.v) : project.schema.v[i].t = "obj"

\* onChange(fields): handleSchemaChange replaces project.schema
SchemaStep(fields) ==
    /\ project' = [project EXCEPT !.schema = Arr(fields)]
    /\ notice' = ""
    /\ UNCHANGED <<isGenerating, generationPrompt, showAiModal, showSettingsModal, apiKey, imageReads, activeMenuRow,
                   requests, readers, savedJson, savedProject, csvOut, selectedGroupId>>

\* generateId: a fresh identifier
generateId == Uuid(nextId + 1)

addField ==
    /\ nextId < MaxIds
    /\ Len(project.schema.v) < MaxFields
    /\ SchemaStep(Append(project.schema.v,
                         Obj([id |-> generateId,
                              name |-> Str(<<"N", "e", "w", " ", "F", "i", "e", "l", "d">>),
                              type |-> FT_Text])))
    /\ nextId' = nextId + 1
    /\ UNCHANGED draggedIndex

\* { ...f, ...updates }
MergeField(f, updates) ==
    Obj([k \in DOMAIN f.v \cup DOMAIN updates.v |->
            IF k \in DOMAIN updates.v THEN updates.v[k] ELSE f.v[k]])

updateField(id, updates) ==
    /\ SchemaStep([i \in 1..Len(project.schema.v) |->
                      IF Get(project.schema.v[i], "id") = id
                      THEN MergeField(project.schema.v[i], updates)
                      ELSE project.schema.v[i]])
    /\ UNCHANGED <<nextId, draggedIndex>>

RECURSIVE SelectSeq2(_, _)
\* fields.filter(f => f.id !== id)
SelectSeq2(fields, id) ==
    IF fields = <<>> THEN <<>>
    ELSE IF Get(Head(fields), "id") # id
    THEN <<Head(fields)>> \o SelectSeq2(Tail(fields), id)
    ELSE SelectSeq2(Tail(fields), id)

removeField(id) ==
    /\ SchemaStep(SelectSeq2(project.schema.v, id))
    /\ UNCHANGED <<nextId, draggedIndex>>

\* the controls of the f-th field card
FieldNames == {Str(<<"H", "P">>)}

SetFieldName(f, name) ==
    /\ f \in 1..Len(project.schema.v)
    /\ updateField(Get(project.schema.v[f], "id"), Obj([name |-> name]))

\* the option the type list offers under FieldType.Image has no value
\* attribute, so its value is its text
FT_ImageOption == Str(<<"Image / URL">>)

FieldTypeChoices ==
    {FT_Text, FT_LongText, FT_Number, FT_Boolean, FT_Select, FT_KeyValueSelect, FT_ImageOption}

SetFieldType(f, type) ==
    /\ f \in 1..Len(project.schema.v)
    /\ updateField(Get(project.schema.v[f], "id"), Obj([type |-> type]))

RemoveFieldAt(f) ==
    /\ f \in 1..Len(project.schema.v)
    /\ removeField(Get(project.schema.v[f], "id"))

RECURSIVE Split(_, _)
\* s.split(c) for a one-character separator
Split(s, c) ==
    IF \A i \in 1..Len(s) : s[i] # c THEN <<s>>
    ELSE LET i == CHOOSE j \in 1..Len(s) : s[j] = c /\ \A k \in 1..(j - 1) : s[k] # c
         IN  <<SubSeq(s, 1, i - 1)>> \o Split(SubSeq(s, i + 1, Len(s)), c)

OptionTexts == {<<>>, <<"a", ",", " ", "b">>}

\* the options input of a Select field
SetOptions(f, text) ==
    /\ f \in 1..Len(project.schema.v)
    /\ Get(project.schema.v[f], "type") = FT_Select
    /\ updateField(Get(project.schema.v[f], "id"),
                   Obj([options |-> Arr([i \in 1..Len(Split(text, ",")) |->
                                            Str(Trim(Split(text, ",")[i]))])]))

\* field.keyValueOptions || [], and the default of addKeyValueOption's parameter
CurrentOptions(field) ==
    IF Truthy(Get(field, "keyValueOptions")) THEN Get(field, "keyValueOptions").v ELSE <<>>

NewOption ==
    Obj([key |-> Str(<<"N", "e", "w", " ", "L", "a", "b", "e", "l">>),
         value |-> Str(<<"v", "a", "l", "u", "e", "_", "1">>)])

addKeyValueOption(f) ==
    /\ f \in 1..Len(project.schema.v)
    /\ Get(project.schema.v[f], "type") = FT_KeyValueSelect
    /\ Len(CurrentOptions(project.schema.v[f])) < MaxOptions
    /\ updateField(Get(project.schema.v[f], "id"),
                   Obj([keyValueOptions |->
                            Arr(Append(CurrentOptions(project.schema.v[f]), NewOption))]))

OptionEdits == {<<Str(<<"F", "i", "r", "e">>), Str(<<"f", "i", "r", "e", "_", "d", "m", "g">>)>>}

updateKeyValueOption(f, o, key, value) ==
    /\ f \in 1..Len(project.schema.v)
    /\ Get(project.schema.v[f], "type") = FT_KeyValueSelect
    /\ o \in 1..Len(CurrentOptions(project.schema.v[f]))
    /\ updateField(Get(project.schema.v[f], "id"),
                   Obj([keyValueOptions |->
                            Arr([CurrentOptions(project.schema.v[f]) EXCEPT
                                     ![o] = Obj([key |-> key, value |-> value])])]))

removeKeyValueOption(f, o) ==
    /\ f \in 1..Len(project.schema.v)
    /\ Get(project.schema.v[f], "type") = FT_KeyValueSelect
    /\ o \in 1..Len(CurrentOptions(project.schema.v[f]))
    /\ updateField(Get(project.schema.v[f], "id"),
                   Obj([keyValueOptions |-> Arr(Without(CurrentOptions(project.schema.v[f]), o))]))

\* index counts the field cards from 0, as the handlers do
handleDragStart(index) ==
    /\ index \in 0..(Len(project.schema.v) - 1)
    /\ draggedIndex' = Num(index)
    /\ notice' = ""
    /\ UNCHANGED <<project, isGenerating, generationPrompt, showAiModal, showSettingsModal,
                   apiKey, imageReads, activeMenuRow, requests, readers, savedJson, savedProject, csvOut,
                   selectedGroupId, nextId>>

\* seq.splice(start, 1): the list left, and the list of what was taken out
SpliceLeft(seq, start) == IF start < Len(seq) THEN Without(seq, start + 1) ELSE seq
SpliceTaken(seq, start) == IF start < Len(seq) THEN <<seq[start + 1]>> ELSE <<>>

\* seq.splice(start, 0, x)
SpliceIn(seq, start, x) ==
    LET at == IF start < Len(seq) THEN start ELSE Len(seq)
    IN  SubSeq(seq, 1, at) \o <<x>> \o SubSeq(seq, at + 1, Len(seq))

\* lines 55-57: the card at from moves to index
Reordered(fields, from, index) ==
    LET taken == SpliceTaken(fields, from)
        draggedItem == IF taken = <<>> THEN Undef ELSE taken[1]
    IN  SpliceIn(SpliceLeft(fields, from), index, draggedItem)

handleDragOver(index) ==
    /\ index \in 0..(Len(project.schema.v) - 1)
    /\ draggedIndex # Null
    /\ draggedIndex # Num(index)
    /\ SchemaStep(Reordered(project.schema.v, draggedIndex.v, index))
    /\ draggedIndex' = Num(index)
    /\ UNCHANGED nextId

handleDragEnd ==
    /\ draggedIndex # Null
    /\ draggedIndex' = Null
    /\ notice' = ""
    /\ UNCHANGED <<project, isGenerating, generationPrompt, showAiModal, showSettingsModal,
                   apiKey, imageReads, activeMenuRow, requests, readers, savedJson, savedProject, csvOut,
                   selectedGroupId, nextId>>

---------------------------------------------------------------------------

(* The application *)

\* project files the user may pick besides the one Save Project wrote
LegacySchema == Arr(<<Field("1", <<"N", "a", "m", "e">>, FT_Text)>>)

FullSample ==
    JsonFile(Obj([name |-> Str(<<"D">>), schema |-> LegacySchema,
                  groups |-> Arr(<<Obj([id |-> Str(<<"g9">>), name |-> Str(<<"G">>),
                                        assetPrefix |-> Str(<<"q", "/">>)])>>),
                  rows |-> Arr(<<Obj([__groupId |-> Str(<<"g9">>)])>>),
                  assetPrefix |-> Str(<<"p", "/">>),
                  csvSeparator |-> Str(<<";">>)]))

\* a file in which two fields carry one id
DuplicateIdsSample ==
    JsonFile(Obj([name |-> Str(<<"D">>),
                  schema |-> Arr(<<Field("1", <<"N", "a", "m", "e">>, FT_Text),
                                   Field("1", <<"H", "P">>, FT_Number)>>),
                  rows |-> Arr(<<>>)]))

\* a file in which two groups carry one id
SharedGroupIdSample ==
    JsonFile(Obj([name |-> Str(<<"D">>),
                  schema |-> Arr(<<Field("1", <<"N", "a", "m", "e">>, FT_Text)>>),
                  groups |-> Arr(<<Obj([id |-> Str(<<"g1">>), name |-> Str(<<"A">>)]),
                                   Obj([id |-> Str(<<"g1">>), name |-> Str(<<"B">>)])>>),
                  rows |-> Arr(<<Obj([k \in {"1", "__groupId"} |->
                                         IF k = "1" THEN Str(<<"a">>) ELSE Str(<<"g1">>)]),
                                 Obj([k \in {"1"} |-> Str(<<"b">>)])>>)]))

\* a file written with another separator
PipeSample ==
    JsonFile(Obj([name |-> Str(<<"D">>), schema |-> LegacySchema, rows |-> Arr(<<>>),
                  csvSeparator |-> Str(<<"|">>)]))

\* a file whose optional keys are present and hold null, 0 and ''
FalsySample ==
    JsonFile(Obj([name |-> Str(<<"D">>), schema |-> LegacySchema, rows |-> Arr(<<>>),
                  groups |-> Null, assetPrefix |-> Num(0), csvSeparator |-> Str(<<>>)]))

\* a file whose fields declare default values
DefaultsSample ==
    JsonFile(Obj([name |-> Str(<<"D">>),
                  schema |-> Arr(<<Obj([id |-> Str(<<"1">>), name |-> Str(<<"H", "P">>),
                                        type |-> FT_Number, defaultValue |-> Num(0)]),
                                   Obj([id |-> Str(<<"2">>), name |-> Str(<<"O", "n">>),
                                        type |-> FT_Boolean, defaultValue |-> Bool(TRUE)]),
                                   Obj([id |-> Str(<<"3">>), name |-> Str(<<"T">>),
                                        type |-> FT_Text, defaultValue |-> Str(<<"d">>)])>>),
                  rows |-> Arr(<<>>)]))

FileSamples ==
    {NotJsonFile,
     JsonFile(Null),
     JsonFile(Num(7)),
     JsonFile(Obj([name |-> Str(<<"D">>), rows |-> Arr(<<>>)])),
     JsonFile(Obj([name |-> Str(<<"D">>), schema |-> LegacySchema])),
     JsonFile(Obj([schema |-> Arr(<<>>), rows |-> Arr(<<>>)])),
     JsonFile(Obj([name |-> Str(<<"D">>), schema |-> LegacySchema,
                   rows |-> Arr(<<Obj("1" :> Str(<<"x">>))>>)])),
     FullSample,
     PipeSample,
     FalsySample,
     DefaultsSample}

SavedFiles == IF savedJson = NoFile THEN {} ELSE {savedJson}

ShellFileStep ==
    \/ handleSaveProject
    \/ \E file \in FileSamples \cup SavedFiles : handleLoadProject(file)
    \/ \E i \in 1..Len(readers) : readerOnLoad(i)
    \/ handleNewProject
    \/ handleNewProjectDeclined

SettingsStep ==
    \/ OpenSettings
    \/ CloseSettings
    \/ \E sep \in Separators : SetCsvSeparator(sep)
    \/ \E prefix \in Prefixes : handleGlobalPrefixChange(prefix)

AiStep ==
    \/ OpenAiModal
    \/ CloseAiModal
    \/ \E text \in Prompts : SetGenerationPrompt(text)
    \/ handleAiGenerate
    \/ \E i \in 1..Len(requests) :
           \E random \in RandomTokens :
               \E item \in AiItems(requests[i].schema) : aiResolved(i, item, random)
    \/ \E i \in 1..Len(requests) : aiRejected(i)

RowStep ==
    \/ AddRowToSelected
    \/ \E g \in 1..Len(project.groups.v) : AddRowInline(g)
    \/ \E index \in 1..Len(project.rows.v) : deleteRow(index)
    \/ \E index \in 1..Len(project.rows.v) :
           \E edit \in CellEdits : updateCell(index, edit[1], edit[2])

GroupStep ==
    \/ addGroup
    \/ \E g \in 1..Len(project.groups.v) : deleteGroup(g)
    \/ \E g \in 1..Len(project.groups.v) : deleteGroupDeclined(g)
    \/ \E g \in 1..Len(project.groups.v) : SelectGroup(g)
    \/ SelectUngrouped

Directions == {-1, 1}

RowOrderStep ==
    \/ \E index \in 1..Len(project.rows.v) : duplicateRow(index)
    \/ \E g \in 1..Len(project.groups.v) :
           \E index \in 1..Len(project.rows.v) :
               \E direction \in Directions : MoveRowInGroup(g, index, direction)
    \/ \E index \in 1..Len(project.rows.v) :
           \E direction \in Directions : MoveRowUngrouped(index, direction)

\* the menu of a row
MenuStep ==
    \/ \E index \in 1..Len(project.rows.v) : ToggleRowMenu(index)
    \/ CloseRowMenu
    \/ \E index \in 1..Len(project.rows.v) :
           \E g \in 1..Len(project.groups.v) : MoveToGroup(index, g)
    \/ \E index \in 1..Len(project.rows.v) : MoveToUngrouped(index)

\* the cell controls that write a value of the field's own list
CellControlStep ==
    \E index \in 1..Len(project.rows.v) :
        \E f \in 1..Len(project.schema.v) :
            \E o \in 1..MaxOptions : SelectKeyValue(index, f, o)

\* the pointer that drags a field card clicks nothing else until it lets go
Idle == draggedIndex = Null

SchemaEditStep ==
    \/ Idle /\ addField
    \/ \E f \in 1..Len(project.schema.v) : Idle /\ RemoveFieldAt(f)
    \/ \E f \in 1..Len(project.schema.v) :
           \E name \in FieldNames : Idle /\ SetFieldName(f, name)
    \/ \E f \in 1..Len(project.schema.v) :
           \E type \in FieldTypeChoices : Idle /\ SetFieldType(f, type)
    \/ \E f \in 1..Len(project.schema.v) :
           \E text \in OptionTexts : Idle /\ SetOptions(f, text)
    \/ \E f \in 1..Len(project.schema.v) : Idle /\ addKeyValueOption(f)
    \/ \E f \in 1..Len(project.schema.v) :
           \E o \in 1..MaxOptions :
               \E edit \in OptionEdits : Idle /\ updateKeyValueOption(f, o, edit[1], edit[2])
    \/ \E f \in 1..Len(project.schema.v) :
           \E o \in 1..MaxOptions : Idle /\ removeKeyValueOption(f, o)

SchemaDragStep ==
    \/ \E index \in 0..(Len(project.schema.v) - 1) : Idle /\ handleDragStart(index)
    \/ \E index \in 0..(Len(project.schema.v) - 1) : handleDragOver(index)
    \/ handleDragEnd

\* picking an image file for a cell, and the end of the read
ImageStep ==
    \/ \E index \in 1..Len(project.rows.v) :
           \E f \in 1..Len(project.schema.v) :
               \E file \in ImageFiles : selectImageFile(index, f, file)
    \/ \E i \in 1..Len(imageReads) : imageOnLoad(i)
    \/ \E i \in 1..Len(imageReads) : imageOnError(i)

GroupEditStep ==
    \/ \E g \in 1..Len(project.groups.v) : ToggleCollapsed(g)
    \/ \E g \in 1..Len(project.groups.v) :
           \E prefix \in GroupPrefixes : SetGroupPrefix(g, prefix)
    \/ \E g \in 1..Len(project.groups.v) :
           \E name \in GroupNames : RenameGroup(g, name)

\* the whole application
Next ==
    \/ SchemaEditStep
    \/ SchemaDragStep
    \/ ShellFileStep
    \/ SettingsStep
    \/ AiStep
    \/ RowStep
    \/ GroupStep
    \/ RowOrderStep
    \/ MenuStep
    \/ GroupEditStep
    \/ CellControlStep
    \/ ImageStep
    \/ \E name \in ProjectNames : SetProjectName(name)
    \/ handleExportClick

Spec == Init /\ [][Next]_vars

(***************************************************************************)
(* The state space of Spec is the product of the editors' state spaces.    *)
(* Each claim is checked under the part of the application that reads or   *)
(* writes the variables it speaks of, with the actions below taken as they *)
(* stand in Next.                                                          *)
(***************************************************************************)

\* AI generation next to the edits of the row list and New Project
NextAi ==
    \/ AiStep
    \/ AddRowToSelected
    \/ \E index \in 1..Len(project.rows.v) : deleteRow(index)
    \/ \E index \in 1..Len(project.rows.v) :
           \E edit \in CellEdits : updateCell(index, edit[1], edit[2])
    \/ handleNewProject

SpecAi == Init /\ [][NextAi]_vars

\* the service answers a request: the promise resolves or rejects
Answered ==
    \E i \in 1..Len(requests) :
        \/ aiRejected(i)
        \/ \E random \in RandomTokens :
               \E item \in AiItems(requests[i].schema) : aiResolved(i, item, random)

\* the AI modal alone, with a service that answers every request in the end
SpecAiLive == Init /\ [][AiStep]_vars /\ WF_vars(Answered)

\* AI generation next to the groups of the grid; the modal covers the grid
NextAiGroups ==
    \/ AiStep
    \/ ~showAiModal /\ addGroup
    \/ ~showAiModal /\ AddRowToSelected
    \/ \E g \in 1..Len(project.groups.v) : ~showAiModal /\ deleteGroup(g)

InitAiGroups == Init /\ Truthy(apiKey)

SpecAiGroups == InitAiGroups /\ [][NextAiGroups]_vars

\* the grid: groups, the selection and rows
NextGrid ==
    \/ GroupStep
    \/ RowStep
    \/ handleNewProject

SpecGrid == Init /\ [][NextGrid]_vars

\* loading project files into a project under edit
NextLoad ==
    \/ \E file \in FileSamples : handleLoadProject(file)
    \/ \E i \in 1..Len(readers) : readerOnLoad(i)
    \/ AddRowToSelected
    \/ \E name \in ProjectNames : SetProjectName(name)
    \/ handleNewProject
    \/ handleNewProjectDeclined

SpecLoad == Init /\ [][NextLoad]_vars

\* saving the project under edit and loading the saved file back
NextSave ==
    \/ handleSaveProject
    \/ \E file \in {FullSample} \cup SavedFiles : handleLoadProject(file)
    \/ \E i \in 1..Len(readers) : readerOnLoad(i)
    \/ AddRowToSelected
    \/ OpenSettings
    \/ CloseSettings
    \/ \E sep \in Separators : SetCsvSeparator(sep)

\* no action of NextSave reads apiKey: one of its values stands for both
InitSave == Init /\ ~Truthy(apiKey)

SpecSave == InitSave /\ [][NextSave]_vars

\* the cards the pointer works on are the first MaxCards of the list
MaxCards == 2

\* the schema editor next to New Project and Load Project
NextSchema ==
    \/ Mounted /\ Idle /\ addField
    \/ \E f \in 1..MaxCards : Mounted /\ Idle /\ RemoveFieldAt(f)
    \/ \E f \in 1..MaxCards : \E name \in FieldNames : Mounted /\ Idle /\ SetFieldName(f, name)
    \/ \E index \in 0..(MaxCards - 1) : Mounted /\ Idle /\ handleDragStart(index)
    \/ \E index \in 0..(MaxCards - 1) : Mounted /\ handleDragOver(index)
    \/ Mounted /\ handleDragEnd
    \/ Mounted /\ Idle /\ handleNewProject
    \/ Mounted /\ Idle /\ handleLoadProject(DuplicateIdsSample)
    \/ \E i \in 1..Len(readers) : Mounted /\ readerOnLoad(i)

InitSchema == Init /\ ~Truthy(apiKey)

SpecSchema == InitSchema /\ [][NextSchema]_vars


---------------------------------------------------------------------------
(* AI generation and the cell control over mapped dropdown fields *)

Fire == Obj([key |-> Str(<<"F", "i", "r", "e">>),
             value |-> Str(<<"f", "i", "r", "e", "_", "d", "m", "g">>)])
Ice == Obj([key |-> Str(<<"I", "c", "e">>), value |-> Str(<<"i", "c", "e", "_", "d", "m", "g">>)])

\* a mapped dropdown field with the given options
KvField(options) ==
    Obj([id |-> Str(<<"1">>), name |-> Str(<<"E">>), type |-> FT_KeyValueSelect,
         keyValueOptions |-> options])

\* a field just switched to the type, one with one option, one with two
KvSchemas ==
    {Arr(<<Field("1", <<"E">>, FT_KeyValueSelect)>>),
     Arr(<<KvField(Arr(<<Fire>>))>>),
     Arr(<<KvField(Arr(<<Fire, Ice>>))>>)}

InitKv ==
    /\ \E schema \in KvSchemas : InitWith([DefaultProject EXCEPT !.schema = schema])
    /\ Truthy(apiKey)

NextKv ==
    \/ AiStep
    \/ AddRowToSelected
    \/ CellControlStep

SpecKv == InitKv /\ [][NextKv]_vars

---------------------------------------------------------------------------

(* Row and group operations over a range of projects *)

RowSchema ==
    Arr(<<Field("1", <<"N", "a", "m", "e">>, FT_Text),
          Field("2", <<"A", "r", "t">>, FT_ImageFile)>>)

\* two groups, the second with a prefix of its own, or no group at all
RowGroupLists ==
    {Arr(<<>>)} \cup
    {Arr(<<Obj([id |-> Str(<<"g1">>), name |-> Str(<<"A">>), collapsed |-> Bool(FALSE)]),
           Obj([id |-> Str(<<"g2">>), name |-> Str(<<"B">>), collapsed |-> Bool(FALSE),
                assetPrefix |-> prefix])>>) : prefix \in GroupPrefixes}

\* the text that tells the row first listed at a position from the others
RowTags == <<"a", "b", "c", "d", "e", "f">>

\* an ImageFile cell: a legacy string, or a record with a file name
RowImages ==
    {Str(<<"s">>),
     Obj([fileName |-> Str(<<"f">>), filePath |-> Str(<<"f">>), fileData |-> Null])}

RowGroupIds == {Undef, Str(<<"g1">>), Str(<<"g2">>)}

\* the row lists of at most maxLen rows whose ImageFile cells are among images
RowLists(maxLen, images) ==
    UNION {{Arr([i \in 1..n |->
                    Obj([k \in {"__groupId", "1", "2"} |->
                            CASE k = "__groupId" -> c[i][1]
                              [] k = "1" -> Str(<<RowTags[i]>>)
                              [] OTHER -> c[i][2]])]) :
                c \in [1..n -> RowGroupIds \X images]} : n \in 0..maxLen}

RowProjects(maxLen, images) ==
    {[DefaultProject EXCEPT !.schema = RowSchema, !.groups = groups, !.rows = rows] :
         groups \in RowGroupLists, rows \in RowLists(maxLen, images)}

\* no action below reads apiKey: one of its values stands for both
InitRows ==
    \E p \in RowProjects(MaxGridRows, {Str(<<"s">>)}) : InitWith(p) /\ ~Truthy(apiKey)

\* the order of the rows: moves and duplicates, with groups going away
NextRows ==
    \/ \E g \in 1..Len(project.groups.v) : deleteGroup(g)
    \/ \E index \in 1..Len(project.rows.v) : duplicateRow(index)
    \/ \E g \in 1..Len(project.groups.v) :
           \E index \in 1..Len(project.rows.v) :
               \E direction \in Directions : MoveRowInGroup(g, index, direction)
    \/ \E index \in 1..Len(project.rows.v) :
           \E direction \in Directions : MoveRowUngrouped(index, direction)

SpecRows == InitRows /\ [][NextRows]_vars

MaxPrefixRows == 2

InitPrefix ==
    \E p \in RowProjects(MaxPrefixRows, RowImages) : InitWith(p) /\ ~Truthy(apiKey)

\* asset prefixes: the global setting, and groups going away
NextPrefix ==
    \/ \E g \in 1..Len(project.groups.v) : deleteGroup(g)
    \/ \E g \in 1..Len(project.groups.v) : deleteGroupDeclined(g)
    \/ OpenSettings
    \/ CloseSettings
    \/ \E prefix \in Prefixes : handleGlobalPrefixChange(prefix)

SpecPrefix == InitPrefix /\ [][NextPrefix]_vars

\* the attributes of two groups edited, under each global prefix; the second
\* group starts with an empty prefix of its own, the first with none
InitGroupEdit ==
    \E p \in RowProjects(MaxPrefixRows, RowImages) :
        \E prefix \in Prefixes :
            /\ Len(p.groups.v) = 2
            /\ Get(p.groups.v[2], "assetPrefix") = Str(<<>>)
            /\ InitWith([p EXCEPT !.assetPrefix = prefix])
            /\ ~Truthy(apiKey)

SpecGroupEdit == InitGroupEdit /\ [][GroupEditStep]_vars

\* a card of the schema dragged over the first cards while a file is read
NextDrag ==
    \/ \E index \in 0..(Len(project.schema.v) - 1) : Mounted /\ Idle /\ handleDragStart(index)
    \/ \E index \in 0..(MaxCards - 1) : Mounted /\ handleDragOver(index)
    \/ Mounted /\ handleDragEnd
    \/ Mounted /\ Idle /\ handleLoadProject(DuplicateIdsSample)
    \/ \E i \in 1..Len(readers) : Mounted /\ readerOnLoad(i)

SpecDrag == InitSchema /\ [][NextDrag]_vars

\* the menus of the rows, over groups made in the editor and read from a file
NextMenu ==
    \/ MenuStep
    \/ addGroup
    \/ AddRowToSelected
    \/ SelectUngrouped
    \/ handleLoadProject(SharedGroupIdSample)
    \/ \E i \in 1..Len(readers) : readerOnLoad(i)

SpecMenu == InitSchema /\ [][NextMenu]_vars

\* image files read into cells while the rows are edited
NextImage ==
    \/ ImageStep
    \/ \E index \in 1..Len(project.rows.v) :
           \E edit \in CellEdits : updateCell(index, edit[1], edit[2])

SpecImage == InitPrefix /\ [][NextImage]_vars

---------------------------------------------------------------------------
(* CSV export over a range of projects *)

MaxCsvRows == 2

CsvTexts ==
    {Str(<<>>), Str(<<"a">>), Str(<<",">>), Str(<<";">>), Str(<<"\"">>), Str(<<"\n">>)}

CsvFiles ==
    {Undef,
     Str(<<>>),
     Obj([fileName |-> Str(<<"f">>), filePath |-> Str(<<"p", ",", "f">>), fileData |-> Null])}

CsvNames == {<<"n">>, <<",">>, <<";">>, <<"\"", "\n">>}

CsvSchemas ==
    {Arr(<<Field("1", n, FT_Text)>>) : n \in CsvNames}
        \cup {Arr(<<Field("1", <<"n">>, FT_Text), Field("2", <<"i", "m", "g">>, FT_ImageFile)>>)}

\* the rows a schema admits: one sample per cell
CsvRowsOf(schema) ==
    LET samples(f) == IF Get(f, "type") = FT_ImageFile THEN CsvFiles ELSE CsvTexts
        keys == {KeyOf(Get(schema.v[i], "id")) : i \in 1..Len(schema.v)}
        fieldOf(k) == CHOOSE f \in {schema.v[i] : i \in 1..Len(schema.v)} :
                          KeyOf(Get(f, "id")) = k
        cells == {c \in [keys -> CsvTexts \cup CsvFiles] :
                      \A k \in keys : c[k] \in samples(fieldOf(k))}
    IN  {Obj(c) : c \in cells}

\* the projects of at most maxLen rows over the schemas above
CsvProjects(maxLen) ==
    UNION {UNION {{[DefaultProject EXCEPT !.schema = schema, !.rows = Arr(rows)] :
                      rows \in [1..n -> CsvRowsOf(schema)]} : n \in 0..maxLen} :
               schema \in CsvSchemas}

InitCsv == \E p \in CsvProjects(MaxCsvRows) : InitWith(p)

NextCsv ==
    \/ OpenSettings
    \/ CloseSettings
    \/ \E sep \in Separators : SetCsvSeparator(sep)
    \/ handleExportClick

SpecCsv == InitCsv /\ [][NextCsv]_vars

MaxImageRows == 2

\* what the cell of an ImageFile field can hold: nothing, a legacy string, or a
\* record with or without a path and a name
CsvImageCells ==
    {Undef, Null, Str(<<"s">>)}
        \cup {Obj([fileName |-> name, filePath |-> path, fileData |-> Null]) :
                 name \in {Str(<<>>), Str(<<"f">>), Str(<<"f", ";", "g">>)},
                 path \in {Str(<<>>), Str(<<"p", ",", "f">>)}}
        \cup {Obj([fileName |-> Str(<<"f">>), filePath |-> Null, fileData |-> Null])}

ImageSchema ==
    Arr(<<Field("1", <<"n">>, FT_Text), Field("2", <<"i", "m", "g">>, FT_ImageFile)>>)

\* the projects of at most maxLen rows with a text and an image file column
CsvImageProjects(maxLen) ==
    UNION {{[DefaultProject EXCEPT
                 !.schema = ImageSchema,
                 !.rows = Arr([r \in 1..n |-> Obj("1" :> Str(<<"a">>) @@ "2" :> cells[r])])] :
               cells \in [1..n -> CsvImageCells]} : n \in 0..maxLen}

InitCsvImage == \E p \in CsvImageProjects(MaxImageRows) : InitWith(p) /\ ~Truthy(apiKey)

SpecCsvImage == InitCsvImage /\ [][NextCsv]_vars

---------------------------------------------------------------------------
(* Claims about CSV export, checked under SpecCsv *)

RECURSIVE CsvScan(_, _, _, _)
\* A quote-aware CSV reader: sep separates fields and a line break ends a record
\* outside double quotes, a doubled quote inside quotes is one quote, and a line
\* break at the very end of the text ends the last record without opening another.
CsvScan(text, sep, i, st) ==
    IF i > Len(text)
    THEN IF st.started THEN Append(st.recs, Append(st.rec, st.fld)) ELSE st.recs
    ELSE
        LET c == text[i] IN
        IF st.inq
        THEN IF c = "\"" /\ i < Len(text) /\ text[i + 1] = "\""
             THEN CsvScan(text, sep, i + 2, [st EXCEPT !.fld = Append(@, "\"")])
             ELSE IF c = "\""
             THEN CsvScan(text, sep, i + 1, [st EXCEPT !.inq = FALSE])
             ELSE CsvScan(text, sep, i + 1, [st EXCEPT !.fld = Append(@, c)])
        ELSE IF c = "\""
             THEN CsvScan(text, sep, i + 1, [st EXCEPT !.inq = TRUE, !.started = TRUE])
             ELSE IF c = sep
             THEN CsvScan(text, sep, i + 1,
                          [st EXCEPT !.rec = Append(@, st.fld), !.fld = <<>>,
                                     !.started = TRUE])
             ELSE IF c = "\n"
             THEN CsvScan(text, sep, i + 1,
                          [st EXCEPT !.recs = Append(@, Append(st.rec, st.fld)),
                                     !.rec = <<>>, !.fld = <<>>, !.started = FALSE])
             ELSE CsvScan(text, sep, i + 1,
                          [st EXCEPT !.fld = Append(@, c), !.started = TRUE])

CsvRecords(text, sep) ==
    CsvScan(text, sep, 1,
            [recs |-> <<>>, rec |-> <<>>, fld |-> <<>>, inq |-> FALSE, started |-> FALSE])

\* C1: the text exportToCsv returns for a project of N rows and M fields reads back,
\* with the separator it was written with, as exactly N+1 records of exactly M
\* fields each, the first record being the field names in schema order.
C1_ExportHasOneRecordPerRow ==
    csvOut.kind = "csv" =>
        LET recs == CsvRecords(csvOut.text, csvOut.separator[1])
            schema == project.schema.v
        IN  /\ Len(recs) = Len(project.rows.v) + 1
            /\ \A r \in 1..Len(recs) : Len(recs[r]) = Len(schema)
            /\ recs[1] = [i \in 1..Len(schema) |-> Get(schema[i], "name").v]

\* the string form exportToCsv gives a cell before escaping it
C2_StringForm(row, field) ==
    LET raw == Get(row, KeyOf(Get(field, "id")))
    IN  IF Get(field, "type") = FT_ImageFile /\ raw.t = "obj"
        THEN IF Truthy(Get(raw, "filePath")) THEN Get(raw, "filePath").v
             ELSE IF Truthy(Get(raw, "fileName")) THEN Get(raw, "fileName").v
             ELSE <<>>
        ELSE IF IsNullish(raw) THEN <<>> ELSE StringOf(raw)

C2_NeedsQuotes(s, sep) == \E i \in 1..Len(s) : s[i] \in {sep, "\"", "\n"}

C2_Quoted(s) ==
    <<"\"">> \o Flatten([i \in 1..Len(s) |-> IF s[i] = "\"" THEN <<"\"", "\"">> ELSE <<s[i]>>])
             \o <<"\"">>

C2_Emitted(s, sep) == IF C2_NeedsQuotes(s, sep) THEN C2_Quoted(s) ELSE s

\* C2: in the exported text every header and every cell stands wrapped in double
\* quotes, its own quotes doubled, exactly when its string form holds the active
\* separator, a double quote or a line break, and stands as it is otherwise; so a
\* value with a comma is bare under ';' and quoted under ','.
C2_QuotedIffSpecial ==
    csvOut.kind = "csv" =>
        LET sep == csvOut.separator[1]
            schema == project.schema.v
            rows == project.rows.v
            header == Join([i \in 1..Len(schema) |->
                               C2_Emitted(Get(schema[i], "name").v, sep)], <<sep>>)
            line(r) == Join([i \in 1..Len(schema) |->
                                C2_Emitted(C2_StringForm(rows[r], schema[i]), sep)], <<sep>>)
        IN  csvOut.text = header \o <<"\n">> \o Join([r \in 1..Len(rows) |-> line(r)], <<"\n">>)

\* a value holding a comma was exported under ';' and stands bare in the text
C2_Witness ==
    /\ csvOut.kind = "csv"
    /\ csvOut.separator = <<";">>
    /\ Len(project.rows.v) = 1
    /\ Len(project.schema.v) = 1
    /\ Get(project.rows.v[1], "1") = Str(<<",">>)
    /\ csvOut.text = Get(project.schema.v[1], "name").v \o <<"\n", ",">>
    /\ Get(project.schema.v[1], "name").v = <<"n">>

---------------------------------------------------------------------------
(* Claims about project files, checked under SpecSave and SpecLoad *)

\* the FileReader of readers[i] delivers its text in this step
FileRead(i) == i \in 1..Len(readers) /\ readers' = Without(readers, i)

RECURSIVE C3_Values(_)
\* a value as a reader of its properties sees it: a key holding undefined reads
\* the same as a key that is not there
C3_Values(x) ==
    CASE x.t = "obj" ->
             Obj([k \in {j \in DOMAIN x.v : x.v[j].t # "undef"} |-> C3_Values(x.v[k])])
      [] x.t = "arr" -> Arr([i \in 1..Len(x.v) |-> C3_Values(x.v[i])])
      [] OTHER -> x

C3_Kept(p) ==
    [k \in {"name", "schema", "groups", "rows", "assetPrefix", "csvSeparator"} |->
        C3_Values(p[k])]

C4_LacksKeys(file) ==
    /\ file.kind = "json"
    /\ \/ file.doc.t # "obj"
       \/ "schema" \notin DOMAIN file.doc.v
       \/ "rows" \notin DOMAIN file.doc.v

\* C4: reading a file that is valid JSON but has no schema key or no rows key,
\* the documents null and 7 included, leaves the project as it is and shows
\* "Invalid project file format.", never the parse-failure notice.
C4_InvalidFormatReported ==
    [][\A i \in 1..Len(readers) :
           (FileRead(i) /\ C4_LacksKeys(readers[i])) =>
               /\ project' = project
               /\ notice' = AlertInvalid]_vars

C5_IsObject(file) == file.kind = "json" /\ file.doc.t = "obj"

C5_EmptyList(x) == x.t = "arr" /\ x.v = <<>>

C5_FilledList(x) == x.t = "arr" /\ x.v # <<>>

\* C5 as the specification words it: a file is accepted only if its schema and
\* its rows are both non-empty lists, and a file in which either is an empty
\* list is rejected with the project left as it is.
C5_EmptyRejected ==
    [][\A i \in 1..Len(readers) :
           FileRead(i) =>
               LET file == readers[i] IN
               /\ notice' = "" =>
                      /\ C5_IsObject(file)
                      /\ C5_FilledList(Get(file.doc, "schema"))
                      /\ C5_FilledList(Get(file.doc, "rows"))
               /\ (/\ C5_IsObject(file)
                   /\ \/ C5_EmptyList(Get(file.doc, "schema"))
                      \/ C5_EmptyList(Get(file.doc, "rows"))) =>
                      /\ notice' # ""
                      /\ project' = project]_vars

\* C5: a file is accepted exactly when it is a JSON object whose schema and rows
\* are both truthy; an empty list is truthy, so a file whose schema or rows is an
\* empty list is accepted and its schema and rows become the project's.
C5_TruthyAccepted ==
    [][\A i \in 1..Len(readers) :
           FileRead(i) =>
               LET file == readers[i]
                   truthy == /\ C5_IsObject(file)
                             /\ Truthy(Get(file.doc, "schema"))
                             /\ Truthy(Get(file.doc, "rows"))
               IN  /\ notice' = "" <=> truthy
                   /\ truthy => /\ project'.schema = Get(file.doc, "schema")
                                /\ project'.rows = Get(file.doc, "rows")
                   /\ ~truthy => project' = project]_vars

\* a file with an empty schema and no rows has replaced a project that had both
C5_Witness ==
    /\ readers = <<>>
    /\ notice = ""
    /\ project.schema = Arr(<<>>)
    /\ project.rows = Arr(<<>>)

---------------------------------------------------------------------------
(* Claims about AI generation, checked under SpecAi *)

\* a request completed in this step and its item was accepted
C6_Completed == Len(requests') < Len(requests) /\ notice' = ""

\* C6: when a request succeeds, the row list after the step is the row list
\* right before the step with one row added at its end, so rows added, edited or
\* removed while the request was in flight are still there.
C6_AppendsToCurrentRows ==
    [][C6_Completed =>
           /\ Len(project'.rows.v) = Len(project.rows.v) + 1
           /\ SubSeq(project'.rows.v, 1, Len(project.rows.v)) = project.rows.v]_vars

\* C7: there is never more than one request in flight, and isGenerating is true
\* exactly while there is one, whatever is done to the modal and the prompt.
C7_OneRequestInFlight ==
    /\ Len(requests) <= 1
    /\ isGenerating <=> requests # <<>>

\* a request is in flight while the modal is open on a prompt that is not blank
\* and the row list has changed since the click
C7_Witness ==
    /\ Len(requests) = 1
    /\ isGenerating
    /\ showAiModal
    /\ Truthy(Str(Trim(generationPrompt.v)))
    /\ project.rows # requests[1].rows

\* C8: without an API key no request is ever in flight and isGenerating is never
\* true, and a click on Generate shows the missing-key notice and leaves the
\* project, the prompt and the modal as they are.
C8_NoKeyNoRequest ==
    /\ [](~Truthy(apiKey) => requests = <<>> /\ ~isGenerating)
    /\ [][(handleAiGenerate /\ ~Truthy(apiKey)) =>
              /\ notice' = AlertNoKey
              /\ UNCHANGED <<project, generationPrompt, showAiModal, isGenerating,
                             requests>>]_vars

\* Generate was clicked without a key: the notice is up over the open modal
C8_Witness ==
    /\ ~Truthy(apiKey)
    /\ notice = AlertNoKey
    /\ showAiModal
    /\ Truthy(Str(Trim(generationPrompt.v)))
    /\ Len(project.rows.v) > 0

\* a request ended in this step and the failure notice went up
C9_Failed == Len(requests') < Len(requests) /\ notice' = AlertFailed

\* C9: when a request fails, by a rejected call or by an item that cannot be
\* enriched, the project, the prompt and the modal stay as they are and
\* isGenerating is false afterwards.
C9_FailureKeepsState ==
    [][C9_Failed =>
           /\ project' = project
           /\ generationPrompt' = generationPrompt
           /\ showAiModal' = showAiModal
           /\ isGenerating' = FALSE]_vars

\* a request has failed: the modal is still open on the prompt that was sent
C9_Witness ==
    /\ notice = AlertFailed
    /\ ~isGenerating
    /\ requests = <<>>
    /\ showAiModal
    /\ generationPrompt = Str(<<"i", "c", "e">>)
    /\ Len(project.rows.v) > 0

---------------------------------------------------------------------------
(* Claims about the grid, checked under SpecGrid *)

C10_SelectionExists ==
    \/ selectedGroupId = Null
    \/ \E g \in 1..Len(project.groups.v) : Get(project.groups.v[g], "id") = selectedGroupId

\* C10: the selected group is always ungrouped or a group that exists, and the
\* floating / first-row Add Row button appends one row whose __groupId is the
\* selected group's id, or undefined while ungrouped is selected.
C10_AddRowGoesToSelection ==
    /\ []C10_SelectionExists
    /\ [][AddRowToSelected =>
              /\ Len(project'.rows.v) = Len(project.rows.v) + 1
              /\ SubSeq(project'.rows.v, 1, Len(project.rows.v)) = project.rows.v
              /\ Get(project'.rows.v[Len(project'.rows.v)], "__groupId") =
                     (IF selectedGroupId = Null THEN Undef ELSE selectedGroupId)]_vars

\* after a group was deleted, the last row was added to the group that is
\* selected now
C10_Witness ==
    /\ nextId = 2
    /\ Len(project.groups.v) = 1
    /\ selectedGroupId # Null
    /\ Len(project.rows.v) > 0
    /\ Get(project.rows.v[Len(project.rows.v)], "__groupId") = selectedGroupId

---------------------------------------------------------------------------
(* Claims about groups and asset prefixes, checked under SpecPrefix *)

\* what row holds under every key but __groupId
C11_OtherCells(row) == [k \in DOMAIN row.v \ {"__groupId"} |-> row.v[k]]

\* C11: a confirmed deletion of group G takes exactly G out of the group list
\* and clears __groupId on exactly the rows that carried G's id; the number and
\* order of the rows, every other cell (ImageFile paths included), the other
\* groups and the rest of the project stay; a declined deletion changes nothing.
C11_DeleteGroupFrame ==
    [][\A g \in 1..Len(project.groups.v) :
           LET groups == project.groups.v
               rows == project.rows.v
               id == Get(groups[g], "id")
           IN  /\ deleteGroup(g) =>
                      /\ project'.groups.v = SubSeq(groups, 1, g - 1)
                                                 \o SubSeq(groups, g + 1, Len(groups))
                      /\ Len(project'.rows.v) = Len(rows)
                      /\ \A r \in 1..Len(rows) :
                             /\ C11_OtherCells(project'.rows.v[r]) = C11_OtherCells(rows[r])
                             /\ Get(project'.rows.v[r], "__groupId") =
                                    (IF Get(rows[r], "__groupId") = id
                                     THEN Undef ELSE Get(rows[r], "__groupId"))
                      /\ [project' EXCEPT !.rows = project.rows, !.groups = project.groups]
                             = project
               /\ deleteGroupDeclined(g) =>
                      /\ project' = project
                      /\ selectedGroupId' = selectedGroupId]_vars

\* the first of two groups was deleted: its row is ungrouped and still holds its
\* file record, next to a row of the group that is left
C11_Witness ==
    /\ Len(project.groups.v) = 1
    /\ Get(project.groups.v[1], "id") = Str(<<"g2">>)
    /\ Len(project.rows.v) = 2
    /\ Get(project.rows.v[1], "__groupId") = Undef
    /\ Get(Get(project.rows.v[1], "2"), "filePath") = Str(<<"f">>)
    /\ Get(project.rows.v[2], "__groupId") = Str(<<"g2">>)

\* the row is in a group that has a prefix of its own, the empty one included
C12_GroupDefinesPrefix(row) ==
    \E g \in 1..Len(project.groups.v) :
        /\ Get(project.groups.v[g], "id") = Get(row, "__groupId")
        /\ "assetPrefix" \in DOMAIN project.groups.v[g].v
        /\ project.groups.v[g].v["assetPrefix"].t = "str"

\* an ImageFile cell that holds a record with a file name
C12_FileRecord(field, cell) ==
    /\ Get(field, "type") = FT_ImageFile
    /\ cell.t = "obj"
    /\ Get(cell, "fileName").t = "str"
    /\ Get(cell, "fileName").v # <<>>

\* C12: setting the global prefix to P makes assetPrefix P and, in every row
\* whose group has no prefix of its own, gives each ImageFile record with a file
\* name the path P + fileName; cells of rows whose group has a prefix (the empty
\* one included), legacy string cells and all other cells stay as they are.
C12_GlobalPrefixFrame ==
    [][\A P \in Prefixes :
           handleGlobalPrefixChange(P) =>
               /\ project'.assetPrefix = P
               /\ [project' EXCEPT !.rows = project.rows, !.assetPrefix = project.assetPrefix]
                      = project
               /\ Len(project'.rows.v) = Len(project.rows.v)
               /\ \A r \in 1..Len(project.rows.v) :
                      LET row == project.rows.v[r]
                          new == project'.rows.v[r]
                      IN  /\ DOMAIN new.v = DOMAIN row.v
                          /\ Get(new, "__groupId") = Get(row, "__groupId")
                          /\ \A f \in 1..Len(project.schema.v) :
                                 LET field == project.schema.v[f]
                                     key == KeyOf(Get(field, "id"))
                                     cell == Get(row, key)
                                 IN  IF ~C12_GroupDefinesPrefix(row) /\ C12_FileRecord(field, cell)
                                     THEN Get(new, key) =
                                              [cell EXCEPT !.v["filePath"] =
                                                  Str(P.v \o Get(cell, "fileName").v)]
                                     ELSE Get(new, key) = cell]_vars

\* the prefix was set to p/: the record of the ungrouped row got the new path,
\* the record in the group with the empty prefix kept its own
C12_Witness ==
    /\ project.assetPrefix = Str(<<"p", "/">>)
    /\ Len(project.groups.v) = 2
    /\ Get(project.groups.v[2], "assetPrefix") = Str(<<>>)
    /\ Len(project.rows.v) = 2
    /\ Get(project.rows.v[1], "__groupId") = Undef
    /\ Get(Get(project.rows.v[1], "2"), "filePath") = Str(<<"p", "/", "f">>)
    /\ Get(project.rows.v[2], "__groupId") = Str(<<"g2">>)
    /\ Get(Get(project.rows.v[2], "2"), "filePath") = Str(<<"f">>)

---------------------------------------------------------------------------
(* Claims about the order of the rows, checked under SpecRows *)

\* an arrow of the row at index was clicked in this step
C13_Moved(index, direction) ==
    \/ MoveRowUngrouped(index, direction)
    \/ \E g \in 1..Len(project.groups.v) : MoveRowInGroup(g, index, direction)

\* the rows on the side of index that direction points to, with its __groupId
C13_Ahead(index, direction) ==
    {j \in 1..Len(project.rows.v) :
        /\ (j - index) * direction > 0
        /\ Get(project.rows.v[j], "__groupId") = Get(project.rows.v[index], "__groupId")}

\* C13: a move never crosses groups.  Moving the first row of a group up or
\* the last one down leaves the row list as it is, and a move that changes the
\* list swaps two rows of the same __groupId and leaves every other position,
\* and the rest of the project, as it is.
C13_MoveStaysInGroup ==
    [][\A index \in 1..Len(project.rows.v) : \A direction \in Directions :
           C13_Moved(index, direction) =>
               LET rows == project.rows.v IN
               /\ [project' EXCEPT !.rows = project.rows] = project
               /\ C13_Ahead(index, direction) = {} => project'.rows = project.rows
               /\ \/ project'.rows = project.rows
                  \/ \E j \in C13_Ahead(index, direction) :
                         project'.rows.v = [rows EXCEPT ![index] = rows[j],
                                                        ![j] = rows[index]]]_vars

\* the first row went down past a row of another group and changed places with
\* the third
C13_Witness ==
    /\ Len(project.rows.v) = 3
    /\ Get(project.rows.v[1], "1") = Str(<<"c">>)
    /\ Get(project.rows.v[2], "1") = Str(<<"b">>)
    /\ Get(project.rows.v[3], "1") = Str(<<"a">>)
    /\ Get(project.rows.v[1], "__groupId") = Str(<<"g1">>)
    /\ Get(project.rows.v[2], "__groupId") = Str(<<"g2">>)
    /\ Get(project.rows.v[3], "__groupId") = Str(<<"g1">>)
    /\ Len(project.groups.v) = 2

\* C14: duplicating the row at index i makes the list one longer; index i
\* still holds the row it held, index i+1 holds a row with the same values and
\* the same __groupId, the rows before i stay and the rows after i move down by
\* one; nothing else of the project changes.
C14_DuplicateInsertsAfter ==
    [][\A i \in 1..Len(project.rows.v) :
           duplicateRow(i) =>
               LET rows == project.rows.v
                   new == project'.rows.v
               IN  /\ Len(new) = Len(rows) + 1
                   /\ \A j \in 1..i : new[j] = rows[j]
                   /\ new[i + 1] = rows[i]
                   /\ \A j \in (i + 1)..Len(rows) : new[j + 1] = rows[j]
                   /\ [project' EXCEPT !.rows = project.rows] = project]_vars

\* the first of two rows was duplicated: its copy stands second and the row
\* that was second stands third
C14_Witness ==
    /\ Len(project.rows.v) = 3
    /\ Get(project.rows.v[1], "1") = Str(<<"a">>)
    /\ project.rows.v[2] = project.rows.v[1]
    /\ Get(project.rows.v[3], "1") = Str(<<"b">>)
    /\ Get(project.rows.v[1], "__groupId") = Str(<<"g1">>)

(***************************************************************************)
(* C15: for a KeyValueSelect field the request's enum is the list of the   *)
(* options' values, and every value written into a cell of the field, by   *)
(* the cell's select or by an accepted AI row, is one of the declared       *)
(* values and never only a key label.                                       *)
(***************************************************************************)
\* the mapped dropdown fields of a schema
C15_KvFields(schema) ==
    {f \in {schema.v[i] : i \in 1..Len(schema.v)} : Get(f, "type") = FT_KeyValueSelect}

\* the values field f declares
C15_Declared(f) ==
    LET options == Get(f, "keyValueOptions") IN
    IF options.t = "arr" THEN {Get(options.v[i], "value") : i \in 1..Len(options.v)} ELSE {}

C15_EnumIsValues ==
    \A i \in 1..Len(requests) :
        \A f \in C15_KvFields(requests[i].schema) :
            LET options == Get(f, "keyValueOptions")
                enum == Get(Get(Get(requests[i].responseSchema, "properties"),
                                KeyOf(Get(f, "id"))), "enum")
            IN  options.t = "arr" =>
                    /\ enum.t = "arr"
                    /\ Len(enum.v) = Len(options.v)
                    /\ \A o \in 1..Len(options.v) : enum.v[o] = Get(options.v[o], "value")

\* the step is the cell control's or the acceptance of an AI row
C15_Writes ==
    \/ CellControlStep
    \/ \E i \in 1..Len(requests) :
           \E random \in RandomTokens :
               \E item \in AiItems(requests[i].schema) :
                   aiResolved(i, item, random) /\ notice' = ""

C15_StoredValuesDeclared ==
    /\ []C15_EnumIsValues
    /\ [][C15_Writes =>
              \A r \in 1..Len(project'.rows.v) :
                  \A f \in C15_KvFields(project'.schema) :
                      LET key == KeyOf(Get(f, "id")) IN
                      (/\ C15_Declared(f) # {}
                       /\ \/ r > Len(project.rows.v)
                          \/ Get(project'.rows.v[r], key) # Get(project.rows.v[r], key))
                          => Get(project'.rows.v[r], key) \in C15_Declared(f)]_vars

(***************************************************************************)
(* C16: in every reachable state, after field additions, updates,          *)
(* removals and reorderings, New Project and a successful Load Project,    *)
(* no two fields of the schema have the same id; and a reordering changes  *)
(* the order of the fields only, never a field.                            *)
(***************************************************************************)
C16_UniqueIds ==
    \A i \in 1..Len(project.schema.v) :
        \A j \in 1..Len(project.schema.v) :
            i # j => Get(project.schema.v[i], "id") # Get(project.schema.v[j], "id")

\* how often field f occurs in the list
C16_Count(fields, f) == Cardinality({i \in 1..Len(fields) : fields[i] = f})

C16_SameFields(old, new) ==
    /\ Len(new) = Len(old)
    /\ \A i \in 1..Len(old) : C16_Count(new, old[i]) = C16_Count(old, old[i])

C16_SchemaIdsUnique ==
    /\ []C16_UniqueIds
    /\ [][(\E index \in 0..(MaxCards - 1) : handleDragOver(index))
              => C16_SameFields(project.schema.v, project'.schema.v)]_vars

(***************************************************************************)
(* C17: in every reachable state, also after a successful Load Project,    *)
(* the project's csvSeparator is ',' or ';'.                                *)
(***************************************************************************)
C17_SeparatorIsCommaOrSemicolon == project.csvSeparator \in {Str(<<",">>), Str(<<";">>)}

(***************************************************************************)
(* C18: for every row and every ImageFile field whose cell holds a record, *)
(* the exported text carries the record's filePath if that is not empty,   *)
(* else its fileName if that is not empty, else the empty string; a cell   *)
(* with no value is exported as the empty string.                          *)
(***************************************************************************)
\* x is a string of at least one character
C18_NonEmpty(x) == x.t = "str" /\ x.v # <<>>

\* what the claim says the cell shows
C18_Shown(cell) ==
    IF C18_NonEmpty(Get(cell, "filePath")) THEN Get(cell, "filePath").v
    ELSE IF C18_NonEmpty(Get(cell, "fileName")) THEN Get(cell, "fileName").v
    ELSE <<>>

C18_ImageCellIsPathThenName ==
    csvOut.kind = "csv" =>
        LET recs == CsvRecords(csvOut.text, csvOut.separator[1])
            schema == project.schema.v
            rows == project.rows.v
        IN  \A r \in 1..Len(rows) :
                \A i \in 1..Len(schema) :
                    LET cell == Get(rows[r], KeyOf(Get(schema[i], "id"))) IN
                    /\ (Get(schema[i], "type") = FT_ImageFile /\ cell.t = "obj")
                           => recs[r + 1][i] = C18_Shown(cell)
                    /\ IsNullish(cell) => recs[r + 1][i] = <<>>

\* an export of three records: one with a path, one with a name only, one with neither
C18_Witness ==
    /\ csvOut.kind = "csv"
    /\ csvOut.separator = <<";">>
    /\ project.schema = ImageSchema
    /\ Len(project.rows.v) = 2
    /\ Get(project.rows.v[1], "2") =
           Obj([fileName |-> Str(<<"f", ";", "g">>), filePath |-> Str(<<>>), fileData |-> Null])
    /\ Get(project.rows.v[2], "2") =
           Obj([fileName |-> Str(<<"f">>), filePath |-> Str(<<"p", ",", "f">>),
                fileData |-> Null])
    /\ csvOut.text = <<"n", ";", "i", "m", "g", "\n",
                       "a", ";", "\"", "f", ";", "g", "\"", "\n",
                       "a", ";", "p", ",", "f">>

\* the file read in this step was accepted
C19_Loaded(i) == FileRead(i) /\ notice' = ""

\* the key is there in the document, whatever it holds
C19_Present(doc, k) == doc.t = "obj" /\ k \in DOMAIN doc.v

\* C19 as the specification words it: after a successful Load Project the name,
\* schema and rows are the file's, and groups, assetPrefix and csvSeparator are
\* the file's values when the file has the key and [], '' and ',' when it has not.
C19_PresentKept ==
    [][\A i \in 1..Len(readers) :
           C19_Loaded(i) =>
               LET doc == readers[i].doc IN
               /\ project'.name = Get(doc, "name")
               /\ project'.schema = Get(doc, "schema")
               /\ project'.rows = Get(doc, "rows")
               /\ project'.groups =
                      IF C19_Present(doc, "groups") THEN Get(doc, "groups") ELSE Arr(<<>>)
               /\ project'.assetPrefix =
                      IF C19_Present(doc, "assetPrefix") THEN Get(doc, "assetPrefix")
                      ELSE Str(<<>>)
               /\ project'.csvSeparator =
                      IF C19_Present(doc, "csvSeparator") THEN Get(doc, "csvSeparator")
                      ELSE Str(<<",">>)]_vars

\* x is undefined, null, false, 0 or ''
C19_Falsy(x) ==
    \/ x.t \in {"undef", "null"}
    \/ x = Bool(FALSE)
    \/ x = Num(0)
    \/ x = Str(<<>>)

\* C19: after a successful Load Project the name, schema and rows are the
\* file's; groups, assetPrefix and csvSeparator are the file's values when those
\* are truthy, and [], '' and ',' when the key is missing or holds null, false, 0
\* or ''; so every part of the project comes from the file and none from the
\* project it replaces.
C19_TruthyKept ==
    [][\A i \in 1..Len(readers) :
           C19_Loaded(i) =>
               LET doc == readers[i].doc IN
               /\ project'.name = Get(doc, "name")
               /\ project'.schema = Get(doc, "schema")
               /\ project'.rows = Get(doc, "rows")
               /\ project'.groups =
                      IF C19_Falsy(Get(doc, "groups")) THEN Arr(<<>>) ELSE Get(doc, "groups")
               /\ project'.assetPrefix =
                      IF C19_Falsy(Get(doc, "assetPrefix")) THEN Str(<<>>)
                      ELSE Get(doc, "assetPrefix")
               /\ project'.csvSeparator =
                      IF C19_Falsy(Get(doc, "csvSeparator")) THEN Str(<<",">>)
                      ELSE Get(doc, "csvSeparator")]_vars

\* the file whose groups, assetPrefix and csvSeparator are null, 0 and '' was
\* loaded: the three came out as [], '' and ','
C19_Witness ==
    /\ readers = <<>>
    /\ notice = ""
    /\ project.name = Str(<<"D">>)
    /\ project.schema = LegacySchema
    /\ project.rows = Arr(<<>>)
    /\ project.groups = Arr(<<>>)
    /\ project.assetPrefix = Str(<<>>)
    /\ project.csvSeparator = Str(<<",">>)

\* the value the claim gives the new row for field f
C20_Seed(f) ==
    IF Get(f, "defaultValue") # Undef THEN Get(f, "defaultValue")
    ELSE IF Get(f, "type") = FT_Boolean THEN Bool(FALSE)
    ELSE Str(<<>>)

\* C20: Add Row appends exactly one row at the end of the row list and leaves
\* the rows before it as they are; for every field of the schema the new row
\* holds the field's defaultValue whenever the field defines one, the defaults
\* 0 and false included, else false for a Boolean field, else the empty string.
C20_AddRowSeedsDefaults ==
    [][AddRowToSelected =>
           LET rows == project.rows.v
               new == project'.rows.v
           IN  /\ Len(new) = Len(rows) + 1
               /\ \A r \in 1..Len(rows) : new[r] = rows[r]
               /\ \A i \in 1..Len(project.schema.v) :
                      LET f == project.schema.v[i] IN
                      Get(new[Len(new)], KeyOf(Get(f, "id"))) = C20_Seed(f)]_vars

---------------------------------------------------------------------------
(* Claims about the buckets of the grid *)

\* the two rows are listed in one bucket
C21_SameBucket(r1, r2) ==
    \/ ListedUngrouped(r1) /\ ListedUngrouped(r2)
    \/ \E g \in 1..Len(project.groups.v) : ListedInGroup(r1, g) /\ ListedInGroup(r2, g)

\* the rows of the bucket of row index that stand on the side direction points to
C21_Beyond(index, direction) ==
    {j \in 1..Len(project.rows.v) :
        /\ (j - index) * direction > 0
        /\ C21_SameBucket(project.rows.v[index], project.rows.v[j])}

\* the one of them that is listed next to row index
C21_Neighbour(index, direction) ==
    CHOOSE j \in C21_Beyond(index, direction) :
        \A k \in C21_Beyond(index, direction) : (k - j) * direction >= 0

\* an arrow of the row at index was clicked
C21_Click(index, direction) ==
    \/ MoveRowUngrouped(index, direction)
    \/ \E g \in 1..Len(project.groups.v) : MoveRowInGroup(g, index, direction)

\* C21: for every row that is not the last one listed in its bucket (a group, or
\* the ungrouped bucket with the rows whose __groupId is absent or names no
\* group), Move Down makes it change places in the row list with the row listed
\* after it in that bucket; Move Up likewise with the row listed before it.
C21_MoveSwapsWithinBucket ==
    [][\A index \in 1..Len(project.rows.v) : \A direction \in Directions :
           (C21_Click(index, direction) /\ C21_Beyond(index, direction) # {}) =>
               LET rows == project.rows.v
                   j == C21_Neighbour(index, direction)
               IN  project'.rows.v = [rows EXCEPT ![index] = rows[j], ![j] = rows[index]]]_vars

\* the read that completes in this step wrote its cell
C22_Completed(i) ==
    /\ i \in 1..Len(imageReads)
    /\ imageReads' = Without(imageReads, i)
    /\ project' # project

\* C22: when the read of an image file completes, only the ImageFile cell it
\* was picked for changes, into the record of the file's name, the prefix
\* followed by the name, and the content; every other cell and row is as it was
\* just before the completion, the edits made since the file was picked included.
C22_ImageReadWritesOneCell ==
    [][\A i \in 1..Len(imageReads) :
           C22_Completed(i) =>
               LET read == imageReads[i]
                   rows == project.rows.v
                   new == project'.rows.v
               IN  /\ Len(new) = Len(rows)
                   /\ \A r \in 1..Len(rows) :
                          \A k \in DOMAIN rows[r].v :
                              (r # read.rowIndex \/ k # read.fieldId) =>
                                  Get(new[r], k) = Get(rows[r], k)
                   /\ Get(new[read.rowIndex], read.fieldId) =
                          Obj([fileName |-> read.file.name,
                               filePath |-> Concat(read.effectivePrefix, read.file.name),
                               fileData |-> read.file.result])]_vars


\* the cell is one the rewrite is about: an ImageFile field's cell, in a row of
\* the group, holding a record with a file name that is not empty
C23_Rewritten(row, k, id) ==
    /\ Get(row, "__groupId") = id
    /\ \E f \in 1..Len(project.schema.v) :
           /\ KeyOf(Get(project.schema.v[f], "id")) = k
           /\ Get(project.schema.v[f], "type") = FT_ImageFile
    /\ Get(row, k).t = "obj"
    /\ Get(Get(row, k), "fileName").t = "str"
    /\ Get(Get(row, k), "fileName").v # <<>>

\* the rows as the claim gives them after an update of the group's prefix
C23_Rows(rows, id, prefix) ==
    Arr([r \in 1..Len(rows.v) |->
            Obj([k \in DOMAIN rows.v[r].v |->
                    IF C23_Rewritten(rows.v[r], k, id)
                    THEN With(Get(rows.v[r], k), "filePath",
                              Concat(prefix, Get(Get(rows.v[r], k), "fileName")))
                    ELSE Get(rows.v[r], k)])])

\* the groups after an update: the one group with the attribute set, the
\* others as they were
C23_Groups(groups, g, key, value) ==
    Arr([h \in 1..Len(groups.v) |->
            IF h = g THEN With(groups.v[g], key, value) ELSE groups.v[h]])

\* an update whose assetPrefix is absent rebuilds the paths from the global prefix
C23_AbsentIsGlobal ==
    \A g \in 1..Len(project.groups.v) :
        \A absent \in {Undef, Null} :
            UpdatedRows(Get(project.groups.v[g], "id"), Obj([assetPrefix |-> absent]))
                = C23_Rows(project.rows, Get(project.groups.v[g], "id"), project.assetPrefix)

\* C23: Update Group with an assetPrefix sets filePath to the new prefix (the
\* global one when the new value is absent) followed by fileName on every
\* ImageFile cell holding a record with a non-empty fileName in the rows of that
\* group and changes no other row or cell; Update Group without an assetPrefix
\* (rename, collapse) leaves the rows as they were; both change the attributes
\* of that group only.
C23_UpdateGroupRewritesItsRows ==
    /\ []C23_AbsentIsGlobal
    /\ [][\A g \in 1..Len(project.groups.v) :
              /\ \A prefix \in GroupPrefixes :
                     SetGroupPrefix(g, prefix) =>
                         /\ project'.rows =
                                C23_Rows(project.rows, Get(project.groups.v[g], "id"), prefix)
                         /\ project'.groups =
                                C23_Groups(project.groups, g, "assetPrefix", prefix)
              /\ \A name \in GroupNames :
                     RenameGroup(g, name) =>
                         /\ project'.rows = project.rows
                         /\ project'.groups = C23_Groups(project.groups, g, "name", name)
              /\ ToggleCollapsed(g) =>
                     /\ project'.rows = project.rows
                     /\ project'.groups =
                            C23_Groups(project.groups, g, "collapsed",
                                       Bool(~Truthy(Get(project.groups.v[g], "collapsed"))))]_vars

\* a row of g2 has its path rebuilt from the group's prefix next to a row
\* outside g2 that kept its path, in a project whose first group was renamed
C23_Witness ==
    /\ \E r \in 1..Len(project.rows.v) :
           /\ Get(project.rows.v[r], "__groupId") = Str(<<"g2">>)
           /\ Get(Get(project.rows.v[r], "2"), "filePath") = Str(<<"q", "/", "f">>)
    /\ \E r \in 1..Len(project.rows.v) :
           /\ Get(project.rows.v[r], "__groupId") # Str(<<"g2">>)
           /\ Get(Get(project.rows.v[r], "2"), "filePath") = Str(<<"f">>)
    /\ \E g \in 1..Len(project.groups.v) : Get(project.groups.v[g], "name") = Str(<<"N">>)


\* the text before the field name in the description of an image field
C24_ImageText ==
    <<"A", " ", "c", "r", "e", "a", "t", "i", "v", "e", " ", "v", "i", "s", "u", "a", "l", " ",
      "d", "e", "s", "c", "r", "i", "p", "t", "i", "o", "n", " ", "o", "r", " ", "U", "R", "L",
      " ", "f", "o", "r", " ">>

\* the property of the request schema agrees with the field's type
C24_Mapped(field, property) ==
    LET type == Get(field, "type")
        name == Get(field, "name")
    IN  CASE type = FT_Number -> Get(property, "type") = Type_NUMBER
          [] type = FT_Boolean -> Get(property, "type") = Type_BOOLEAN
          [] type = FT_Select ->
                 /\ Get(property, "type") = Type_STRING
                 /\ Get(property, "enum") = Get(field, "options")
          [] type = FT_KeyValueSelect ->
                 /\ Get(property, "type") = Type_STRING
                 /\ Get(property, "enum") = OptionValues(Get(field, "keyValueOptions"))
          [] type \in {FT_ImageURL, Str(<<"image">>)} ->
                 /\ Get(property, "type") = Type_STRING
                 /\ Get(property, "description") = Str(C24_ImageText \o StringOf(name))
          [] OTHER ->
                 /\ Get(property, "type") = Type_STRING
                 /\ Get(property, "description") = name

\* C24: the schema sent with a generation request maps every field by its type:
\* Number to a number, Boolean to a boolean, Select and KeyValueSelect to a
\* string enumerated by the options and the option values, ImageURL (and the
\* legacy Image) to a string described as "A creative visual description or URL
\* for <field name>", every other type to a string described by the field's
\* name; the required keys are the schema's field ids.
C24_RequestSchemaMapsByType ==
    \A q \in 1..Len(requests) :
        LET sent == requests[q].responseSchema
            schema == requests[q].schema
        IN  /\ Get(sent, "required") =
                   Arr([i \in 1..Len(schema.v) |-> Get(schema.v[i], "id")])
            /\ \A i \in 1..Len(schema.v) :
                   C24_Mapped(schema.v[i],
                              Get(Get(sent, "properties"), KeyOf(Get(schema.v[i], "id"))))


\* the promise of request i resolved with the item and a row was appended:
\* nothing was raised on the way
C25_Appended(i) ==
    /\ notice' # AlertFailed
    /\ requests' = Without(requests, i)
    /\ Len(project'.rows.v) = Len(requests[i].rows.v) + 1

\* the ImageURL value of the appended row: the model's own text when it starts
\* with "http", else the placeholder URL seeded by the text, or by the random
\* token when there is no text
C25_Url(given, random) ==
    IF given.t = "str" /\ StartsWith(given.v, Http)
    THEN given
    ELSE Str(<<"h", "t", "t", "p", "s", ":", "/", "/", "p", "i", "c", "s", "u", "m", ".",
               "p", "h", "o", "t", "o", "s", "/", "s", "e", "e", "d", "/">>
             \o encodeURIComponent(IF given.t = "str" /\ given.v # <<>>
                                   THEN given.v ELSE random.v)
             \o <<"/", "2", "0", "0", "/", "2", "0", "0">>)

C25_File(name) == Obj([fileName |-> name, filePath |-> name, fileData |-> Null])

C25_Placeholder ==
    C25_File(Str(<<"p", "l", "a", "c", "e", "h", "o", "l", "d", "e", "r", ".", "p", "n", "g">>))

\* the image cells of the appended row, a text that is empty counting as
\* nothing returned when emptyIsNothing holds
C25_ImageCells(i, generatedItem, random, emptyIsNothing) ==
    LET schema == requests[i].schema
        row == project'.rows.v[Len(project'.rows.v)]
    IN  \A f \in 1..Len(schema.v) :
            LET key == KeyOf(Get(schema.v[f], "id"))
                given == Get(generatedItem, key)
                nothing == IsNullish(given) \/ (emptyIsNothing /\ given = Str(<<>>))
            IN  /\ Get(schema.v[f], "type") = FT_ImageURL =>
                       /\ Get(row, key).t = "str"
                       /\ StartsWith(Get(row, key).v, Http)
                       /\ Get(row, key) = C25_Url(given, random)
                /\ Get(schema.v[f], "type") = FT_ImageFile =>
                       /\ nothing => Get(row, key) = C25_Placeholder
                       /\ (~nothing /\ given.t = "str") => Get(row, key) = C25_File(given)
                       /\ Get(row, key).t = "obj"

C26_Listed(bucket) == {bucket[n] : n \in 1..Len(bucket)}

\* the number of buckets that list the row of the index
C26_Count(index) ==
    Cardinality({g \in 1..Len(project.groups.v) : index \in C26_Listed(groupedData.groups[g])})
        + (IF index \in C26_Listed(groupedData.ungrouped) THEN 1 ELSE 0)

\* the indices of a bucket rise from one entry to the next
C26_InOrder(bucket) ==
    \A n \in 1..(Len(bucket) - 1) : bucket[n] < bucket[n + 1]

\* C26: in every reachable state each row of the row list is listed in exactly
\* one bucket, the one of the defined group whose id is the row's __groupId, or
\* the ungrouped one when __groupId is absent or names no defined group, and
\* each bucket lists its rows in the order of the row list with their indices.
C26_EachRowInOneBucket ==
    /\ \A r \in 1..Len(project.rows.v) :
           /\ C26_Count(r - 1) = 1
           /\ \A g \in 1..Len(project.groups.v) :
                  r - 1 \in C26_Listed(groupedData.groups[g]) =>
                      Get(project.groups.v[g], "id") = Get(project.rows.v[r], "__groupId")
           /\ r - 1 \in C26_Listed(groupedData.ungrouped) =>
                  \/ Get(project.rows.v[r], "__groupId") = Undef
                  \/ \A g \in 1..Len(project.groups.v) :
                         Get(project.groups.v[g], "id") # Get(project.rows.v[r], "__groupId")
    /\ \A g \in 1..Len(project.groups.v) : C26_InOrder(groupedData.groups[g])
    /\ C26_InOrder(groupedData.ungrouped)


\* the menu is closed, or open on the row of one index
C27_ClosedOrOpen ==
    \/ activeMenuRow = Null
    \/ activeMenuRow.t = "num" /\ activeMenuRow.v \in 0..MaxRows

\* the row list with the __groupId of one row set and nothing else changed
C27_Moved(rows, index, groupId) ==
    Arr([r \in 1..Len(rows.v) |->
            IF r = index
            THEN Obj([k \in DOMAIN rows.v[r].v \cup {"__groupId"} |->
                         IF k = "__groupId" THEN groupId ELSE rows.v[r].v[k]])
            ELSE rows.v[r]])

\* C27: the menu of the rows is closed or open on one row; a click on a row's
\* menu button opens its menu, a second click on it, a click on the layer
\* behind it and the choice of a destination close it; the choice of a
\* destination sets the __groupId of that row and changes nothing else in the
\* row list.
C27_RowMenu ==
    /\ []C27_ClosedOrOpen
    /\ [][/\ \A index \in 1..Len(project.rows.v) :
                /\ ToggleRowMenu(index) =>
                       /\ activeMenuRow' = IF activeMenuRow = Num(index - 1)
                                           THEN Null ELSE Num(index - 1)
                       /\ project' = project
                /\ MoveToUngrouped(index) =>
                       /\ activeMenuRow' = Null
                       /\ project' = [project EXCEPT
                              !.rows = C27_Moved(project.rows, index, Undef)]
                /\ \A g \in 1..Len(project.groups.v) :
                       MoveToGroup(index, g) =>
                           /\ activeMenuRow' = Null
                           /\ project' = [project EXCEPT
                                  !.rows = C27_Moved(project.rows, index,
                                                     Get(project.groups.v[g], "id"))]
          /\ CloseRowMenu => activeMenuRow' = Null /\ project' = project]_vars

\* the first row was moved under the second group made, the second row under
\* the first, and the menu is closed again
C27_Witness ==
    /\ Len(project.rows.v) = 2
    /\ Get(project.rows.v[1], "__groupId") = Uuid(2)
    /\ Get(project.rows.v[2], "__groupId") = Uuid(1)
    /\ activeMenuRow = Null


\* C28: after every drag-over of a gesture the schema holds the fields it held
\* before, the dragged field is at the index hovered, the other fields are in
\* the order they were in, and the tracked index is the dragged field's
\* position; a drag-over on the dragged field's own position changes nothing.
C28_DragOverMovesTheDraggedField ==
    [][\A index \in 0..(Len(project.schema.v) - 1) :
           handleDragOver(index) =>
               LET from == draggedIndex.v
                   old == project.schema.v
                   new == project'.schema.v
               IN  /\ from < Len(old)
                   /\ Len(new) = Len(old)
                   /\ new[index + 1] = old[from + 1]
                   /\ Without(new, index + 1) = Without(old, from + 1)
                   /\ draggedIndex' = Num(index)]_vars


\* the flag is set exactly while a request is outstanding
C29_FlagIffOutstanding == isGenerating <=> requests # <<>>

\* C29: isGenerating is true exactly while a generation request is outstanding,
\* and with a service that answers in the end every started request completes
\* and isGenerating becomes false again.
C29_GeneratingEnds ==
    /\ []C29_FlagIffOutstanding
    /\ (requests # <<>>) ~> (requests = <<>>)
    /\ isGenerating ~> ~isGenerating

\* a request was started and has completed with a row, and the flag is clear
C29_Witness ==
    /\ ~isGenerating
    /\ requests = <<>>
    /\ Len(project.rows.v) > 0


\* C30: in every state reached from the default project by operations of the
\* application alone (rows and groups added, changed and deleted, AI
\* generation, New Project; no file loaded) the __groupId of every row is
\* absent or the id of a group of the group list.
C30_NoOrphanedGroupId ==
    \A r \in 1..Len(project.rows.v) :
        \/ Get(project.rows.v[r], "__groupId") = Undef
        \/ \E g \in 1..Len(project.groups.v) :
               Get(project.groups.v[g], "id") = Get(project.rows.v[r], "__groupId")

====
